---- MODULE Spec2Model ----
(***************************************************************************)
(* Model of micromed_io: the sample decoder (MicromedIO, in_out.py) and    *)
(* the sliding-window epoch buffer (MicromedBuffer, buffer.py).            *)
(*                                                                         *)
(* Conventions                                                             *)
(*  - A Python value that may be None is a sequence of length 0 (None) or  *)
(*    1 (the value): None, Some(v), Get(x).                                *)
(*  - A numpy 2-d array is a sequence of rows, each a sequence of values;  *)
(*    column indexes in the operators are Python's 0-based indexes.        *)
(*  - Seconds are rationals with denominator TimeDen: epoch_duration = 3   *)
(*    stands for 3 / TimeDen s.                                            *)
(*  - The outcome of a call is a string: "True", "False", "None" or the    *)
(*    name of the exception it raised.                                     *)
(***************************************************************************)
EXTENDS Integers, Sequences, FiniteSets, TLC

VARIABLES
    micromed_header,        \* MicromedIO.micromed_header (MicromedHeader)
    picks,                  \* MicromedIO.picks (constructor argument)
    picks_id,               \* MicromedIO.picks_id
    current_data_eeg,       \* MicromedIO.current_data_eeg
    current_channels,       \* MicromedIO.current_channels
    epoch_duration,         \* MicromedBuffer.epoch_duration
    epoch_overlap,          \* MicromedBuffer.epoch_overlap
    epoch_buffer,           \* MicromedBuffer.epoch_buffer
    current_epoch,          \* MicromedBuffer.current_epoch
    current_buffer_length,  \* MicromedBuffer.current_buffer_length
    header_packet,          \* the last header packet (b_data), as its fields
    recording,              \* the bytes of the TRC file from the data address on
    packet,                 \* the data packet at hand (b_data), as bytes
    call,                   \* the last call: its name, arguments and outcome
    emitted,                \* the windows of the calls that returned True, oldest first
    n_delivered,            \* samples handed to update_epoch_buffer so far
    n_calls,                \* calls of update_epoch_buffer so far
    n_raised,               \* calls of update_epoch_buffer that raised so far
    sock,                   \* run: the listening socket ("none" before socket())
    connection              \* run: the accepted connection ("none" for None)

vars == <<micromed_header, picks, picks_id, current_data_eeg, current_channels,
          epoch_duration, epoch_overlap, epoch_buffer, current_epoch,
          current_buffer_length, header_packet, recording, packet, call, emitted,
          n_delivered, n_calls, n_raised, sock, connection>>

server_vars == <<sock, connection>>

io_vars == <<micromed_header, picks, picks_id, current_data_eeg, current_channels>>

buf_vars == <<epoch_duration, epoch_overlap, epoch_buffer, current_epoch,
              current_buffer_length>>

----------------------------------------------------------------------------
(* Bounds of the model *)

MaxSamples == 8          \* samples delivered to one buffer
MaxChunk == 5            \* samples in one EEG packet of the stream
MaxCalls == 4            \* EEG packets of one stream
MaxDecodeSamples == 1    \* samples per channel in a packet of the decoder runs
MaxBytes == 6            \* bytes in a packet of the runs on packets of any length
MaxRecords == 3          \* records in the NOTE zone and in the TRIGGER zone
MaxRecording == 3        \* samples in a recording file
MaxSessionCalls == 2     \* EEG packets of a stream with several header packets
TimeDen == 2             \* denominator of the durations (half seconds)

(* Program constants *)

MkrLevel == 50           \* the level _check_eegs_data compares with

----------------------------------------------------------------------------
(* Python and numpy primitives *)

None == <<>>

Some(v) == <<v>>

Get(x) == x[1]

Min(a, b) == IF a < b THEN a ELSE b

Max(a, b) == IF a > b THEN a ELSE b

Abs(x) == IF x < 0 THEN -x ELSE x

\* int(num / den): truncation toward zero
IntTrunc(num, den) == IF num >= 0 THEN num \div den ELSE -((-num) \div den)

\* x in list
InList(x, l) == \E k \in 1..Len(l) : l[k] = x

\* list.index(x), 0-based (x is in l)
IndexOf(x, l) == (CHOOSE k \in 1..Len(l) : l[k] = x /\ \A m \in 1..(k - 1) : l[m] # x) - 1

\* list.remove(x): removes the first occurrence
ListRemove(l, x) ==
    LET k == IndexOf(x, l) + 1
    IN  SubSeq(l, 1, k - 1) \o SubSeq(l, k + 1, Len(l))

\* M.shape[1] of a matrix with at least one row
Shape1(M) == IF Len(M) = 0 THEN 0 ELSE Len(M[1])

\* a bound of a Python slice over n items, clipped as Python does
SliceBound(i, n) == IF i < 0 THEN Max(i + n, 0) ELSE Min(i, n)

\* M[:, start:stop]
Cols(M, start, stop) ==
    LET n == Shape1(M)
        lo == SliceBound(start, n)
        hi == SliceBound(stop, n)
    IN  [r \in 1..Len(M) |-> SubSeq(M[r], lo + 1, hi)]

\* M[:, start:]
ColsFrom(M, start) == Cols(M, start, Shape1(M))

\* M[:, start:stop] = Src: numpy copies when the shapes agree, repeats the
\* column of a one-column Src and the row of a one-row Src, and raises
\* ValueError otherwise
SetCols(M, start, stop, Src) ==
    LET n == Shape1(M)
        lo == SliceBound(start, n)
        hi == SliceBound(stop, n)
        w == Max(hi - lo, 0)
        sw == Shape1(Src)
        SrcRow(r) == IF Len(Src) = 1 THEN Src[1] ELSE Src[r]
    IN  IF Len(Src) # Len(M) /\ Len(Src) # 1
        THEN [ok |-> FALSE, val |-> M]
        ELSE IF sw = w
        THEN [ok |-> TRUE,
              val |-> [r \in 1..Len(M) |->
                        [j \in 1..n |-> IF j > lo /\ j <= lo + w
                                        THEN SrcRow(r)[j - lo] ELSE M[r][j]]]]
        ELSE IF sw = 1
        THEN [ok |-> TRUE,
              val |-> [r \in 1..Len(M) |->
                        [j \in 1..n |-> IF j > lo /\ j <= lo + w
                                        THEN SrcRow(r)[1] ELSE M[r][j]]]]
        ELSE [ok |-> FALSE, val |-> M]

\* M[ids, :] for in-range row indexes ids (0-based)
Rows(M, ids) == [r \in 1..Len(ids) |-> M[ids[r] + 1]]

\* np.delete(M, k, axis=0), k 0-based and in range
DeleteRow(M, k) == SubSeq(M, 1, k) \o SubSeq(M, k + 2, Len(M))

\* np.empty((rows, cols)): storage that was never written, here all cells g
Empty(rows, cols, g) == [r \in 1..rows |-> [j \in 1..cols |-> g]]

----------------------------------------------------------------------------
(* Header model: what decode_data_header_packet keeps of _read_header        *)

\* Channel names f"{chan_name}-{ground}" of the modelled recordings
ChA == "Fp1-G2"

ChB == "Fpz-G2"

ChMkr == "MKR+-MKR-"

\* a name that no modelled header has
ChX == "x9-G2"

ChNames == {ChA, ChB, ChMkr, ChX}

\* "MKR" in ch
HasMKR(ch) == ch \in {ChMkr}

\* MicromedHeader(): every field None
NewHeader ==
    [nb_of_channels |-> None, min_sampling_rate |-> None, nb_of_bytes |-> None,
     header_type |-> None, ch_names |-> None, elec_refs |-> None, notes |-> None,
     markers |-> None]

\* an unsigned 32-bit field as its two 16-bit halves, hi * 65536 + lo
U32(hi, lo) == <<hi, lo>>

\* HEADER_TYPE: the codes of the table, and its values
HeaderTypeCodes == 0..4

HEADER_TYPE(code) ==
    IF code \in {0, 1} THEN "Micromed \"System 1\" Header type"
    ELSE IF code = 2 THEN "Micromed \"System 2\" Header type"
    ELSE "Micromed \"System98\" Header type"

\* UNITS.get(k, UNITS[0])
UNITS(k) ==
    IF k = -1 THEN "nV"
    ELSE IF k = 0 THEN "μV"
    ELSE IF k = 1 THEN "mV"
    ELSE IF k = 2 THEN "V"
    ELSE IF k = 100 THEN "%"
    ELSE IF k = 101 THEN "bpm"
    ELSE IF k = 102 THEN "dimentionless"
    ELSE "μV"

\* one entry of _read_header(...)["chans"], with the name already joined
Chan(name, factor, ground, units) ==
    [name |-> name, factor |-> factor, logical_ground |-> ground, units |-> units]

\* one 128-byte record of the LABCOD zone: the name (joined), the logical
\* range and ground, the physical range and the unit code
LabCod(name, l_min, l_max, ground, ph_min, ph_max, k) ==
    [name |-> name, l_min |-> l_min, l_max |-> l_max, logical_ground |-> ground,
     ph_min |-> ph_min, ph_max |-> ph_max, k |-> k]

\* the fields of a header packet that the decoder uses: the header type byte,
\* the counts, the LABCOD records in ORDER, the NOTE and TRIGGER records
HeaderPacketOf(code, s_freq, n_bytes, labcod, notes, trigger) ==
    [header_type |-> code, n_chan |-> Len(labcod), s_freq |-> s_freq,
     n_bytes |-> n_bytes, labcod |-> labcod, notes |-> notes, trigger |-> trigger]

\* float(ph_max - ph_min) / float(l_max - l_min + 1) for the ranges of the
\* model, whose quotients are whole; den is not 0
Factor(num, den) == IF den > 0 THEN IntTrunc(num, den) ELSE -IntTrunc(num, -den)

\* _read_labcod for one channel: "ZeroDivisionError" or "ok" with the entry
read_labcod(c) ==
    IF c.l_max - c.l_min + 1 = 0 THEN [ret |-> "ZeroDivisionError", chan |-> None]
    ELSE [ret |-> "ok",
          chan |-> Some(Chan(c.name, Factor(c.ph_max - c.ph_min, c.l_max - c.l_min + 1),
                             c.logical_ground, UNITS(c.k)))]

\* _read_header: "KeyError" for a header type that HEADER_TYPE has not,
\* "ZeroDivisionError" from _read_labcod, or "ok" with the parsed header
read_header(f) ==
    IF f.header_type \notin HeaderTypeCodes THEN [ret |-> "KeyError", orig |-> None]
    ELSE IF \E k \in 1..f.n_chan : read_labcod(f.labcod[k]).ret # "ok"
    THEN [ret |-> "ZeroDivisionError", orig |-> None]
    ELSE [ret |-> "ok",
          orig |-> Some([n_chan |-> f.n_chan, s_freq |-> f.s_freq, n_bytes |-> f.n_bytes,
                         header_type |-> HEADER_TYPE(f.header_type),
                         chans |-> [k \in 1..f.n_chan |->
                                      Get(read_labcod(f.labcod[k]).chan)],
                         notes |-> f.notes, trigger |-> f.trigger])]

\* the header packet of a recording with 2 bytes per sample, millivolts, a
\* factor of 25 and no note or trigger; names in storage order
PlainHeaderPacket(names, s_freq, mkr_ground) ==
    HeaderPacketOf(4, s_freq, 2,
        [k \in 1..Len(names) |->
            LabCod(names[k], 0, 1, IF HasMKR(names[k]) THEN mkr_ground ELSE 0, 0, 50, 1)],
        <<>>, <<>>)

\* a result of _read_header: names in storage order, the marker channel's ground
ReadHeader(names, s_freq, mkr_ground) ==
    Get(read_header(PlainHeaderPacket(names, s_freq, mkr_ground)).orig)

\* the header packets of the streams of the model
HeaderPackets ==
    {PlainHeaderPacket(<<ChA, ChB>>, 2, 0),
     PlainHeaderPacket(<<ChA, ChB, ChMkr>>, 2, 0),
     PlainHeaderPacket(<<ChMkr, ChA, ChB>>, 1, 0),
     PlainHeaderPacket(<<ChA, ChMkr, ChB>>, 2, 4)}

\* the headers the model decodes
Headers == {Get(read_header(f).orig) : f \in HeaderPackets}

\* PicksIndex gone wrong: the indexes of the picked channels in header order
PicksIndexInHeaderOrder(pk, ch_names) ==
    SelectSeq([k \in 1..Len(ch_names) |-> k - 1], LAMBDA i : InList(ch_names[i + 1], pk))

\* the index array of the channels to pick, in_out.py lines 109-112
PicksIndex(pk, ch_names) == [k \in 1..Len(pk) |-> IndexOf(pk[k], ch_names)]

\* d[key] = val on a dict, a function from its keys
DictPut(d, key, val) == [x \in (DOMAIN d) \cup {key} |-> IF x = key THEN val ELSE d[x]]

\* the empty dict
EmptyDict == [x \in {} |-> None]

\* the loop of lines 128-132 from the dict d on: up to the first record
\* whose sample is 0
RECURSIVE NotesDict(_, _)
NotesDict(d, notes) ==
    IF notes = <<>> \/ Head(notes).sample = U32(0, 0) THEN d
    ELSE NotesDict(DictPut(d, Head(notes).sample, Head(notes).text), Tail(notes))

\* MarkersDict gone wrong: stops at the sentinel sample, whatever the code
RECURSIVE MarkersDictAtSample(_, _)
MarkersDictAtSample(d, trigger) ==
    IF trigger = <<>> \/ Head(trigger).sample = U32(65535, 65535) THEN d
    ELSE MarkersDictAtSample(DictPut(d, Head(trigger).sample,
                                     ToString(Head(trigger).code)),
                             Tail(trigger))

\* the loop of lines 136-140 from the dict d on: up to the first record
\* with sample 4294967295 and code 65535; the values are str(marker_val)
RECURSIVE MarkersDict(_, _)
MarkersDict(d, trigger) ==
    IF trigger = <<>>
       \/ (Head(trigger).sample = U32(65535, 65535) /\ Head(trigger).code = 65535)
    THEN d
    ELSE MarkersDict(DictPut(d, Head(trigger).sample, ToString(Head(trigger).code)),
                     Tail(trigger))

\* MicromedIO.decode_data_header_packet on the parsed header h.  The fields
\* assigned before the check of the picks stay assigned when it raises.
decode_data_header_packet(header, pk, pid, h) ==
    LET names == [k \in 1..h.n_chan |-> h.chans[k].name]
        hdr1 == [header EXCEPT !.nb_of_channels = Some(h.n_chan),
                               !.min_sampling_rate = Some(h.s_freq),
                               !.nb_of_bytes = Some(h.n_bytes),
                               !.header_type = Some(h.header_type),
                               !.ch_names = Some(names)]
        refs == [k \in 1..h.n_chan |->
                   [factor |-> h.chans[k].factor,
                    logic_ground |-> h.chans[k].logical_ground,
                    units |-> h.chans[k].units]]
        hdr2 == [hdr1 EXCEPT !.elec_refs = Some(refs),
                             !.notes = Some(NotesDict(EmptyDict, h.notes)),
                             !.markers = Some(MarkersDict(EmptyDict, h.trigger))]
    IN  IF pk = None
        THEN [ret |-> "None", micromed_header |-> hdr2,
              picks_id |-> Some([k \in 1..h.n_chan |-> k - 1])]
        ELSE IF \E k \in 1..Len(Get(pk)) : ~InList(Get(pk)[k], names)
        THEN [ret |-> "ValueError", micromed_header |-> hdr1, picks_id |-> pid]
        ELSE [ret |-> "None", micromed_header |-> hdr2,
              picks_id |-> Some(PicksIndex(Get(pk), names))]

\* MicromedIO.decode_data_header_packet on the header packet f: _read_header
\* raises before anything is assigned
DecodeHeader(header, pk, pid, f) ==
    LET rh == read_header(f)
    IN  IF rh.ret # "ok"
        THEN [ret |-> rh.ret, micromed_header |-> header, picks_id |-> pid]
        ELSE decode_data_header_packet(header, pk, pid, Get(rh.orig))

----------------------------------------------------------------------------
(* Sample decoder: MicromedIO.decode_data_eeg_packet                         *)

\* The packet is the sequence of its bytes: len(packet)
PacketSize(pkt) == Len(pkt)

\* DType gone wrong: every other width read as 16-bit words
DTypeOrWords(n_bytes) == IF n_bytes = 4 THEN Some("int32") ELSE Some("uint16")

\* dt, lines 201-206: None where the code raises ValueError
DType(n_bytes) ==
    IF n_bytes \in {1, 2} THEN Some("uint16")
    ELSE IF n_bytes = 4 THEN Some("int32")
    ELSE None

\* the size in bytes of an item of the dtype of n_bytes
ItemSize(n_bytes) == IF DType(n_bytes) = Some("int32") THEN 4 ELSE 2

\* np.frombuffer(packet, dtype=dt) raises ValueError unless the buffer holds
\* whole items
FromBufferOk(pkt, n_bytes) == Len(pkt) % ItemSize(n_bytes) = 0

\* np.frombuffer(packet, dtype=dt) of a buffer of whole items: little-endian
\* unsigned 16-bit words, or signed 32-bit integers
RawValues(pkt, n_bytes) ==
    IF DType(n_bytes) = Some("int32")
    THEN [k \in 1..(Len(pkt) \div 4) |->
            LET lo == pkt[4 * k - 3] + 256 * pkt[4 * k - 2]
                hi == pkt[4 * k - 1] + 256 * pkt[4 * k]
            IN  lo + 65536 * (IF hi >= 32768 THEN hi - 65536 ELSE hi)]
    ELSE [k \in 1..(Len(pkt) \div 2) |-> pkt[2 * k - 1] + 256 * pkt[2 * k]]

\* np.isclose(a, b) on the integer values of the model: rtol * |b| + atol < 1
IsClose(a, b) == a = b

\* the values decoded with use_volt are m * 10^e: m the value in the
\* channel's unit, 10^e the ratio of the unit to the volt
Volt(m, e) == [m |-> m, e |-> e]

\* np.isclose(abs(v), b) for v = m * 10^e and b = 50: |m| * 10^e is within
\* 1e-5 * b + 1e-8 of b; with e = -9 it is below 2.2 for every 32-bit m
IsCloseVolt(v, b) ==
    IF v.e = 0 THEN Abs(v.m) = b
    ELSE IF v.e = -3 THEN 100 * Abs(Abs(v.m) - 1000 * b) <= b
    ELSE IF v.e = -6 THEN Abs(Abs(v.m) - 1000000 * b) <= 10 * b
    ELSE FALSE

\* VoltRatioExp gone wrong: the ratio of the millivolt for the microvolt
VoltRatioExpMilli(unit) ==
    IF unit = "nV" THEN Some(-9)
    ELSE IF unit \in {"μV", "mV"} THEN Some(-3)
    ELSE IF unit = "V" THEN Some(0)
    ELSE None

\* the exponent of the ratio of lines 229-239: nV 1e-9, μV 1e-6, mV 1e-3, V 1;
\* None for a unit the code raises ValueError for
VoltRatioExp(unit) ==
    IF unit = "nV" THEN Some(-9)
    ELSE IF unit = "μV" THEN Some(-6)
    ELSE IF unit = "mV" THEN Some(-3)
    ELSE IF unit = "V" THEN Some(0)
    ELSE None

\* (raw - logic_ground) * factor, lines 246-254
Calibrate(raw, ref) == (raw - ref.logic_ground) * ref.factor

\* the same with factor *= ratio, lines 228-245
CalibrateVolt(raw, ref) == Volt(Calibrate(raw, ref), Get(VoltRatioExp(ref.units)))

\* picks after the marker channels were appended, lines 212-215
WithMkr(pk, ch_names) ==
    LET mkr == SelectSeq(ch_names, HasMKR)
    IN  pk \o SelectSeq(mkr, LAMBDA ch : ~InList(ch, pk))

\* np.take(raw_values, t + i) of channel i (0-based), converted or raw
ChannelRow(header, raw_values, i, ns, keep_raw, use_volt) ==
    LET nch == Get(header.nb_of_channels)
        taken == [t \in 1..ns |-> raw_values[(t - 1) * nch + i + 1]]
        ref == Get(header.elec_refs)[i + 1]
    IN  IF keep_raw THEN taken
        ELSE IF use_volt THEN [t \in 1..ns |-> CalibrateVolt(taken[t], ref)]
        ELSE [t \in 1..ns |-> Calibrate(taken[t], ref)]

\* what the body of the loop of lines 222-254 does for channel i (0-based):
\* "ok", or the exception it raises
ChannelOutcome(header, raw_values, i, ns, keep_raw, use_volt) ==
    IF ~keep_raw /\ header.elec_refs = None THEN "TypeError"
    ELSE IF ~keep_raw /\ use_volt
            /\ VoltRatioExp(Get(header.elec_refs)[i + 1].units) = None
    THEN "ValueError"
    ELSE IF ns > 0 /\ (ns - 1) * Get(header.nb_of_channels) + i + 1 > Len(raw_values)
    THEN "IndexError"
    ELSE "ok"

\* the outcome of the loop: the exception of the first channel of the header,
\* among those of pk, whose turn raises, or "ok"
LoopOutcome(header, raw_values, pk, ns, keep_raw, use_volt) ==
    LET names == Get(header.ch_names)
        bad == {i \in 0..(Get(header.nb_of_channels) - 1) :
                  /\ InList(names[i + 1], pk)
                  /\ ChannelOutcome(header, raw_values, i, ns, keep_raw, use_volt) # "ok"}
    IN  IF bad = {} THEN "ok"
        ELSE ChannelOutcome(header, raw_values,
                            CHOOSE i \in bad : \A j \in bad : i <= j,
                            ns, keep_raw, use_volt)

\* ReshapedData gone wrong: one row per name of pk, in the order of pk
ReshapedDataInPicksOrder(header, raw_values, pk, ns, keep_raw, use_volt) ==
    LET names == Get(header.ch_names)
        known == SelectSeq(pk, LAMBDA ch : InList(ch, names))
    IN  [r \in 1..Len(known) |->
           ChannelRow(header, raw_values, IndexOf(known[r], names), ns, keep_raw,
                      use_volt)]

\* reshaped_data, lines 220-256: one row per header channel that is in pk,
\* in the order of the header
ReshapedData(header, raw_values, pk, ns, keep_raw, use_volt) ==
    LET names == Get(header.ch_names)
        idx == SelectSeq([k \in 1..Get(header.nb_of_channels) |-> k - 1],
                         LAMBDA i : InList(names[i + 1], pk))
    IN  [r \in 1..Len(idx) |->
           ChannelRow(header, raw_values, idx[r], ns, keep_raw, use_volt)]

\* MicromedIO._check_eegs_data: "IndexError" when a marker's position in
\* current_channels is not a row of the data; volt tells that the values
\* were decoded with use_volt
RECURSIVE check_eegs_data(_, _, _, _)
check_eegs_data(data, channels, mkr_channels, volt) ==
    IF mkr_channels = <<>> THEN "True"
    ELSE LET k == IndexOf(Head(mkr_channels), channels)
             rest == check_eegs_data(data, channels, Tail(mkr_channels), volt)
         IN  IF k >= Len(data) THEN "IndexError"
             ELSE IF rest = "IndexError" THEN rest
             ELSE IF \A t \in 1..Len(data[k + 1]) :
                        IF volt THEN IsCloseVolt(data[k + 1][t], MkrLevel)
                        ELSE IsClose(Abs(data[k + 1][t]), MkrLevel)
             THEN rest ELSE "False"

\* the loop of lines 263-270: delete the row at the marker's position in
\* current_channels and remove the name, for the markers not in orig_picks
RECURSIVE RemoveMkr(_, _, _, _)
RemoveMkr(data, channels, mkr_channels, orig_picks) ==
    IF mkr_channels = <<>> THEN [ok |-> TRUE, data |-> data, channels |-> channels]
    ELSE LET ch == Head(mkr_channels)
             k == IndexOf(ch, channels)
         IN  IF InList(ch, orig_picks)
             THEN RemoveMkr(data, channels, Tail(mkr_channels), orig_picks)
             ELSE IF k >= Len(data)
             THEN [ok |-> FALSE, data |-> data, channels |-> channels]
             ELSE RemoveMkr(DeleteRow(data, k), ListRemove(channels, ch),
                            Tail(mkr_channels), orig_picks)

\* MicromedIO.decode_data_eeg_packet(packet, picks, keep_raw, use_volt,
\* check_data).  data and channels are current_data_eeg and current_channels
\* before the call.  arg_picks is the caller's list object after the call.
decode_data_eeg_packet(header, data, channels, pkt, arg, keep_raw, use_volt, check_data) ==
    LET unchanged(ret, lst) ==
            [ret |-> ret, current_data_eeg |-> data, current_channels |-> channels,
             arg_picks |-> lst]
    IN  IF header.nb_of_bytes = None \/ DType(Get(header.nb_of_bytes)) = None
        THEN unchanged("ValueError", arg)
        ELSE
        LET n_bytes == Get(header.nb_of_bytes)
            nch == Get(header.nb_of_channels)
            names == Get(header.ch_names)
            pk0 == IF arg = None THEN names ELSE Get(arg)
            mkr_channels == SelectSeq(names, HasMKR)
            pk == IF check_data THEN WithMkr(pk0, names) ELSE pk0
            after == IF arg = None THEN arg ELSE Some(pk)
        IN  \* np.frombuffer, line 217
            IF ~FromBufferOk(pkt, n_bytes) THEN unchanged("ValueError", after)
            ELSE
            LET raw_values == RawValues(pkt, n_bytes)
                ns == (PacketSize(pkt) \div n_bytes) \div nch
                loop == LoopOutcome(header, raw_values, pk, ns, keep_raw, use_volt)
            IN  IF loop # "ok" THEN unchanged(loop, after)
                ELSE
                LET reshaped == ReshapedData(header, raw_values, pk, ns, keep_raw,
                                             use_volt)
                    full == [ret |-> "True", current_data_eeg |-> Some(reshaped),
                             current_channels |-> Some(pk), arg_picks |-> after]
                IN  IF ~check_data THEN full
                    ELSE
                    LET verdict == check_eegs_data(reshaped, pk, mkr_channels,
                                                   use_volt /\ ~keep_raw)
                        rm == RemoveMkr(reshaped, pk, mkr_channels, pk0)
                    IN  IF verdict = "IndexError"
                        THEN [full EXCEPT !.ret = "IndexError"]
                        ELSE IF ~rm.ok
                        THEN [full EXCEPT !.ret = "IndexError",
                                          !.current_data_eeg = Some(rm.data),
                                          !.current_channels = Some(rm.channels),
                                          !.arg_picks = IF arg = None THEN arg
                                                        ELSE Some(rm.channels)]
                        ELSE [ret |-> verdict, current_data_eeg |-> Some(rm.data),
                              current_channels |-> Some(rm.channels),
                              arg_picks |-> IF arg = None THEN arg
                                            ELSE Some(rm.channels)]

----------------------------------------------------------------------------
(* Epoch buffer: MicromedBuffer                                              *)

\* int(min_sampling_rate * seconds), seconds = num / TimeDen
NbSamples(header, num) == IntTrunc(Get(header.min_sampling_rate) * num, TimeDen)

\* MicromedBuffer.init_buffer; g is the content of the storage np.empty returns
init_buffer(b, header, pid, g) ==
    LET nb_of_samples == NbSamples(header, b.epoch_duration)
    IN  IF pid = None THEN [b EXCEPT !.ret = "TypeError"]
        ELSE IF nb_of_samples < 0 THEN [b EXCEPT !.ret = "ValueError"]
        ELSE [b EXCEPT !.epoch_buffer = Some(Empty(Len(Get(pid)), nb_of_samples, g)),
                       !.current_epoch = Some(Empty(Len(Get(pid)), nb_of_samples, g))]

\* the copy of the last samples to the buffer's beginning, lines 134-138 and 156-160
SeedOverlap(buf, n_overlaping_samples) ==
    SetCols(buf, 0, n_overlaping_samples,
            ColsFrom(buf, Shape1(buf) - n_overlaping_samples))

\* lines 119-124: less new data than the buffer needs
CaseLess(b, src, size_to_add) ==
    LET c == b.current_buffer_length
        a1 == SetCols(Get(b.epoch_buffer), c, c + size_to_add, src)
    IN  IF ~a1.ok THEN [b EXCEPT !.ret = "ValueError"]
        ELSE [b EXCEPT !.epoch_buffer = Some(a1.val),
                       !.current_buffer_length = c + size_to_add,
                       !.ret = "False"]

\* lines 126-139: exactly the data that fills the buffer
CaseExact(b, src, size_to_add, n_overlaping_samples) ==
    LET c == b.current_buffer_length
        a1 == SetCols(Get(b.epoch_buffer), c, c + size_to_add, src)
        a2 == SeedOverlap(a1.val, n_overlaping_samples)
        b1 == [b EXCEPT !.epoch_buffer = Some(a1.val),
                        !.current_epoch = Some(a1.val),
                        !.current_buffer_length = n_overlaping_samples]
    IN  IF ~a1.ok THEN [b EXCEPT !.ret = "ValueError"]
        ELSE IF ~a2.ok THEN [b1 EXCEPT !.ret = "ValueError"]
        ELSE [b1 EXCEPT !.epoch_buffer = Some(a2.val), !.ret = "True"]

\* lines 141-165: data overlapping the end of the buffer
CaseOver(b, src, size_to_add, n_overlaping_samples) ==
    LET c == b.current_buffer_length
        buf == Get(b.epoch_buffer)
        remaining_size == Shape1(buf) - c
        over_size == size_to_add - remaining_size
        a1 == SetCols(buf, c, Shape1(buf), Cols(src, 0, remaining_size))
        a2 == SeedOverlap(a1.val, n_overlaping_samples)
        a3 == SetCols(a2.val, n_overlaping_samples, n_overlaping_samples + over_size,
                      ColsFrom(src, remaining_size))
        b1 == [b EXCEPT !.epoch_buffer = Some(a1.val), !.current_epoch = Some(a1.val)]
    IN  IF ~a1.ok THEN [b EXCEPT !.ret = "ValueError"]
        ELSE IF ~a2.ok THEN [b1 EXCEPT !.ret = "ValueError"]
        ELSE IF ~a3.ok THEN [b1 EXCEPT !.epoch_buffer = Some(a2.val), !.ret = "ValueError"]
        ELSE [b1 EXCEPT !.epoch_buffer = Some(a3.val),
                        !.current_buffer_length = over_size + n_overlaping_samples,
                        !.ret = "True"]

\* MicromedBuffer.update_epoch_buffer.  b holds the fields of the buffer and
\* ret; data is current_data_eeg; the result is b after the call.
update_epoch_buffer(b, header, pid, data, g) ==
    LET b0 == IF b.epoch_buffer = None THEN init_buffer(b, header, pid, g) ELSE b
    IN  IF b0.ret # "None" THEN b0
        ELSE IF Len(data) = 0 \/ \E r \in 1..Len(Get(pid)) : Get(pid)[r] >= Len(data)
        THEN [b0 EXCEPT !.ret = "IndexError"]
        ELSE
        LET size_to_add == Shape1(data)
            n_overlaping_samples == NbSamples(header, b0.epoch_overlap)
            src == Rows(data, Get(pid))
            full == b0.current_buffer_length + size_to_add
            width == Shape1(Get(b0.epoch_buffer))
        IN  IF full < width THEN CaseLess(b0, src, size_to_add)
            ELSE IF full = width THEN CaseExact(b0, src, size_to_add, n_overlaping_samples)
            ELSE CaseOver(b0, src, size_to_add, n_overlaping_samples)

\* the fields of the buffer, with the outcome slot of a call about to start
Buffer ==
    [epoch_duration |-> epoch_duration, epoch_overlap |-> epoch_overlap,
     epoch_buffer |-> epoch_buffer, current_epoch |-> current_epoch,
     current_buffer_length |-> current_buffer_length, ret |-> "None"]

----------------------------------------------------------------------------
(* Inputs of the model *)

\* epoch_duration values, in 1 / TimeDen s (0 and negative: invalid)
Durations == {-2, 0, 3, 4}

\* epoch_overlap values, in 1 / TimeDen s
Overlaps == {0, 1, 2, 4}

\* the picks of the constructor
PicksArgs == {None, Some(<<ChA, ChB>>), Some(<<ChB, ChA>>), Some(<<ChA, ChX>>)}

\* the content np.empty can leave in a new array
GarbageVals == {-1, -2}

\* the bytes of 16-bit words as the device sends them, little-endian
WordsToBytes(ws) ==
    [k \in 1..(2 * Len(ws)) |->
        IF k % 2 = 1 THEN ws[(k + 1) \div 2] % 256 ELSE ws[k \div 2] \div 256]

\* the raw sample of channel i (0-based) at time t of the stream: its position
RawSample(t, i, nch) == t * nch + i

\* the EEG packet that carries the samples n0 .. n0 + s - 1 of the stream
StreamPacket(n0, s, nch) == WordsToBytes([k \in 1..(s * nch) |-> n0 * nch + k - 1])

\* the samples a packet of the decoder runs can hold
RawVals == {1, 2}

\* all sequences over S of length n
RECURSIVE SeqsOfLen(_, _)
SeqsOfLen(S, n) ==
    IF n = 0 THEN {<<>>}
    ELSE {Append(q, x) : q \in SeqsOfLen(S, n - 1), x \in S}

\* the packets of whole samples for nch channels
Packets(nch) ==
    UNION {{WordsToBytes(ws) : ws \in SeqsOfLen(RawVals, ns * nch)} :
             ns \in 0..MaxDecodeSamples}

\* the per-call picks: None, or one or two different names
CallPicks ==
    {None} \cup {Some(<<a>>) : a \in ChNames}
           \cup {Some(<<q[1], q[2]>>) : q \in {x \in ChNames \X ChNames : x[1] # x[2]}}

\* the record of a call
Call(op, ret, size, cursor, arg, keep_raw, check_data, arg_picks) ==
    [op |-> op, ret |-> ret, size |-> size, cursor |-> cursor, arg |-> arg,
     keep_raw |-> keep_raw, check_data |-> check_data, arg_picks |-> arg_picks,
     use_volt |-> FALSE]

Exceptions == {"ValueError", "TypeError", "IndexError", "KeyError", "ZeroDivisionError"}

----------------------------------------------------------------------------
(* A MicromedBuffer fed by a Micromed stream *)

\* MicromedBuffer(epoch_duration, epoch_overlap, picks)
Init ==
    \E d \in Durations, o \in Overlaps, pk \in PicksArgs :
        /\ micromed_header = NewHeader
        /\ picks = pk
        /\ picks_id = None
        /\ current_data_eeg = None
        /\ current_channels = None
        /\ epoch_duration = d
        /\ epoch_overlap = o
        /\ epoch_buffer = None
        /\ current_epoch = None
        /\ current_buffer_length = 0
        /\ header_packet = None
        /\ recording = <<>>
        /\ packet = <<>>
        /\ call = Call("__init__", "None", 0, 0, None, FALSE, FALSE, None)
        /\ emitted = <<>>
        /\ n_delivered = 0
        /\ n_calls = 0
        /\ n_raised = 0
        /\ sock = "none"
        /\ connection = "none"

\* a HEADER packet: decode_data_header_packet; the stream starts with it
HeaderPacket ==
    \E f \in HeaderPackets :
        /\ micromed_header.ch_names = None
        /\ header_packet' = Some(f)
        /\ \E r \in {decode_data_header_packet(micromed_header, picks, picks_id,
                                                Get(read_header(f).orig))} :
               /\ micromed_header' = r.micromed_header
               /\ picks_id' = r.picks_id
               /\ call' = Call("decode_data_header_packet", r.ret, 0,
                               current_buffer_length, None, FALSE, FALSE, None)
        /\ UNCHANGED <<server_vars, picks, current_data_eeg, current_channels, buf_vars, recording,
                       packet, emitted, n_delivered, n_calls, n_raised>>

\* an EEG_DATA packet of s samples: decode_data_eeg_packet(b_data), then
\* update_epoch_buffer() unless the decoding raised
EegPacket ==
    \E s \in 0..MaxChunk, g \in GarbageVals :
        /\ micromed_header.ch_names # None
        /\ n_calls < MaxCalls
        /\ n_delivered + s <= MaxSamples
        /\ \E pkt \in {StreamPacket(n_delivered, s, Get(micromed_header.nb_of_channels))} :
           \E r \in {decode_data_eeg_packet(micromed_header, current_data_eeg,
                                           current_channels, pkt, None, FALSE, FALSE,
                                           TRUE)} :
               /\ packet' = pkt
               /\ current_data_eeg' = r.current_data_eeg
               /\ current_channels' = r.current_channels
               /\ IF r.ret \in Exceptions
                  THEN /\ call' = Call("decode_data_eeg_packet", r.ret, s,
                                       current_buffer_length, None, FALSE, TRUE, None)
                       /\ UNCHANGED <<buf_vars, emitted, n_delivered, n_calls, n_raised>>
                  ELSE \E u \in {update_epoch_buffer(Buffer, micromed_header, picks_id,
                                                     Get(r.current_data_eeg), g)} :
                       /\ epoch_buffer' = u.epoch_buffer
                       /\ current_epoch' = u.current_epoch
                       /\ current_buffer_length' = u.current_buffer_length
                       /\ call' = Call("update_epoch_buffer", u.ret, s,
                                       current_buffer_length, None, FALSE, TRUE, None)
                       /\ emitted' = IF u.ret = "True"
                                     THEN Append(emitted, Get(u.current_epoch))
                                     ELSE emitted
                       /\ n_delivered' = n_delivered + s
                       /\ n_calls' = n_calls + 1
                       /\ n_raised' = IF u.ret \in Exceptions THEN n_raised + 1
                                      ELSE n_raised
                       /\ UNCHANGED <<epoch_duration, epoch_overlap>>
        /\ UNCHANGED <<server_vars, micromed_header, picks, picks_id, header_packet, recording>>

Next == HeaderPacket \/ EegPacket

Spec == Init /\ [][Next]_vars

----------------------------------------------------------------------------
(* A MicromedIO with a decoded header, asked to decode the packet at hand *)

InitDecode ==
    \E f \in HeaderPackets :
        \E pkt \in Packets(f.n_chan) :
            \E r \in {decode_data_header_packet(NewHeader, None, None,
                                                Get(read_header(f).orig))} :
                /\ micromed_header = r.micromed_header
                /\ picks = None
                /\ picks_id = r.picks_id
                /\ current_data_eeg = None
                /\ current_channels = None
                /\ epoch_duration = 0
                /\ epoch_overlap = 0
                /\ epoch_buffer = None
                /\ current_epoch = None
                /\ current_buffer_length = 0
                /\ header_packet = Some(f)
                /\ recording = <<>>
                /\ packet = pkt
                /\ call = Call("decode_data_header_packet", r.ret, 0, 0, None,
                               FALSE, FALSE, None)
                /\ emitted = <<>>
                /\ n_delivered = 0
                /\ n_calls = 0
                /\ n_raised = 0
                /\ sock = "none"
                /\ connection = "none"

\* decode_data_eeg_packet(packet, picks, keep_raw, check_data=check_data)
DecodeEegPacket ==
    \E arg \in CallPicks, keep_raw \in BOOLEAN, check_data \in BOOLEAN :
        \E r \in {decode_data_eeg_packet(micromed_header, current_data_eeg,
                                        current_channels, packet, arg, keep_raw,
                                        FALSE, check_data)} :
            /\ current_data_eeg' = r.current_data_eeg
            /\ current_channels' = r.current_channels
            /\ call' = Call("decode_data_eeg_packet", r.ret, 0, 0, arg, keep_raw,
                            check_data, r.arg_picks)
            /\ UNCHANGED <<server_vars, micromed_header, picks, picks_id, buf_vars, header_packet,
                           recording, packet, emitted, n_delivered, n_calls, n_raised>>

NextDecode == DecodeEegPacket

SpecDecode == InitDecode /\ [][NextDecode]_vars

----------------------------------------------------------------------------
(* A MicromedIO that decodes header packets and EEG packets of any length,   *)
(* for recordings of every sample width and unit                            *)

\* the unit codes of the LABCOD records: those of UNITS and one it has not
UnitCodes == {-1, 0, 1, 2, 100, 101, 102, 7}

\* the declared sample widths: 3 is not supported
Widths == {1, 2, 3, 4}

\* a header packet with the given width and the channels ChA and ChB with
\* the given unit codes, or ChA alone; the factor is 2
WidthPacket(n_bytes, two, kA, kB) ==
    HeaderPacketOf(4, 1, n_bytes,
        IF two THEN <<LabCod(ChA, 0, 1, 0, 0, 4, kA), LabCod(ChB, 0, 1, 0, 0, 4, kB)>>
        ELSE <<LabCod(ChA, 0, 1, 0, 0, 4, kA)>>,
        <<>>, <<>>)

\* the header packets that differ by the width and the number of channels
WidthHeaderPackets == {WidthPacket(n, two, 1, 1) : n \in Widths, two \in BOOLEAN}

\* the header packets that differ by the units
UnitHeaderPackets ==
    {WidthPacket(2, TRUE, k, 1) : k \in UnitCodes} \cup {WidthPacket(2, TRUE, 1, 100)}

\* the first n bytes of the pattern 1, 255, 3, 255, 5, 255, ...
BytePackets == {[k \in 1..n |-> IF k % 2 = 1 THEN k ELSE 255] : n \in 0..MaxBytes}

\* the per-call picks of these runs
WidthPicks == {None, Some(<<ChB>>)}

InitWidth ==
    /\ micromed_header = NewHeader
    /\ picks = None
    /\ picks_id = None
    /\ current_data_eeg = None
    /\ current_channels = None
    /\ epoch_duration = 0
    /\ epoch_overlap = 0
    /\ epoch_buffer = None
    /\ current_epoch = None
    /\ current_buffer_length = 0
    /\ header_packet = None
    /\ recording = <<>>
    /\ packet = <<>>
    /\ call = Call("__init__", "None", 0, 0, None, FALSE, FALSE, None)
    /\ emitted = <<>>
    /\ n_delivered = 0
    /\ n_calls = 0
    /\ n_raised = 0
    /\ sock = "none"
    /\ connection = "none"

\* a HEADER packet of the stream: decode_data_header_packet(b_data); the
\* headers that follow the first differ by the width and the channels only
WidthHeaderPacket ==
    \E f \in (IF header_packet = None THEN WidthHeaderPackets \cup UnitHeaderPackets
              ELSE WidthHeaderPackets) :
        \E r \in {decode_data_header_packet(micromed_header, picks, picks_id,
                                            Get(read_header(f).orig))} :
            /\ header_packet' = Some(f)
            /\ micromed_header' = r.micromed_header
            /\ picks_id' = r.picks_id
            /\ call' = Call("decode_data_header_packet", r.ret, 0, 0, None, FALSE,
                            FALSE, None)
            /\ UNCHANGED <<server_vars, picks, current_data_eeg, current_channels, buf_vars,
                           recording, packet, emitted, n_delivered, n_calls, n_raised>>

\* decode_data_eeg_packet(packet, picks, keep_raw, use_volt) on a packet of
\* any length; check_data has its default
DecodeBytes ==
    \E pkt \in BytePackets, arg \in WidthPicks, keep_raw \in BOOLEAN,
       use_volt \in BOOLEAN, check_data \in {TRUE} :
        \E r \in {decode_data_eeg_packet(micromed_header, current_data_eeg,
                                        current_channels, pkt, arg, keep_raw,
                                        use_volt, check_data)} :
            /\ packet' = pkt
            /\ current_data_eeg' = r.current_data_eeg
            /\ current_channels' = r.current_channels
            /\ call' = [Call("decode_data_eeg_packet", r.ret, Len(pkt), 0, arg,
                             keep_raw, check_data, r.arg_picks)
                          EXCEPT !.use_volt = use_volt]
            /\ UNCHANGED <<server_vars, micromed_header, picks, picks_id, buf_vars, header_packet,
                           recording, emitted, n_delivered, n_calls, n_raised>>

NextWidth == WidthHeaderPacket \/ DecodeBytes

SpecWidth == InitWidth /\ [][NextWidth]_vars

----------------------------------------------------------------------------
(* A MicromedIO that decodes header packets of every content                 *)

\* the header type bytes: the supported 4, others of HEADER_TYPE, others
HeaderTypeBytes == {-1, 0, 3, 4, 5}

\* the logical ranges <<l_min, l_max>> of a LABCOD record
LogicalRanges == {<<0, 1>>, <<0, 0>>, <<0, -1>>, <<0, -2>>}

\* a record of the NOTE zone and one of the TRIGGER zone
Note(sample, text) == [sample |-> sample, text |-> text]

Trigger(sample, code) == [sample |-> sample, code |-> code]

NoteRecords ==
    {Note(U32(0, 0), "z"), Note(U32(0, 1), "a"), Note(U32(0, 1), "b"),
     Note(U32(1, 0), "c")}

TriggerRecords ==
    {Trigger(U32(65535, 65535), 65535), Trigger(U32(65535, 65535), 2),
     Trigger(U32(0, 1), 65535)}

\* all sequences over S of length at most n
SeqsUpTo(S, n) == UNION {SeqsOfLen(S, k) : k \in 0..n}

\* a header packet of two channels, or of ChA alone
ContentPacket(code, two, range, notes, trigger) ==
    HeaderPacketOf(code, 2, 2,
        IF two THEN <<LabCod(ChA, 0, 1, 0, 0, 50, 1),
                      LabCod(ChB, range[1], range[2], 0, 0, 50, 1)>>
        ELSE <<LabCod(ChA, range[1], range[2], 0, 0, 50, 1)>>,
        notes, trigger)

\* the header packets: each differs from the plain one in one respect
ContentHeaderPackets ==
    {ContentPacket(code, TRUE, <<0, 1>>, <<>>, <<>>) : code \in HeaderTypeBytes}
      \cup {ContentPacket(4, two, range, <<>>, <<>>) :
              two \in BOOLEAN, range \in LogicalRanges}
      \cup {ContentPacket(4, TRUE, <<0, 1>>, notes, <<>>) :
              notes \in SeqsUpTo(NoteRecords, MaxRecords)}
      \cup {ContentPacket(4, TRUE, <<0, 1>>, <<>>, trigger) :
              trigger \in SeqsUpTo(TriggerRecords, MaxRecords)}

\* the picks of the constructor in these runs
HeaderPicks == {None, Some(<<ChB, ChA>>)}

\* MicromedIO(picks)
InitHeader ==
    \E pk \in HeaderPicks :
        /\ micromed_header = NewHeader
        /\ picks = pk
        /\ picks_id = None
        /\ current_data_eeg = None
        /\ current_channels = None
        /\ epoch_duration = 0
        /\ epoch_overlap = 0
        /\ epoch_buffer = None
        /\ current_epoch = None
        /\ current_buffer_length = 0
        /\ header_packet = None
        /\ recording = <<>>
        /\ packet = <<>>
        /\ call = Call("__init__", "None", 0, 0, None, FALSE, FALSE, None)
        /\ emitted = <<>>
        /\ n_delivered = 0
        /\ n_calls = 0
        /\ n_raised = 0
        /\ sock = "none"
        /\ connection = "none"

\* decode_data_header_packet(b_data)
DecodeHeaderPacket ==
    \E f \in ContentHeaderPackets :
        \E r \in {DecodeHeader(micromed_header, picks, picks_id, f)} :
            /\ header_packet' = Some(f)
            /\ micromed_header' = r.micromed_header
            /\ picks_id' = r.picks_id
            /\ call' = Call("decode_data_header_packet", r.ret, 0, 0, None, FALSE,
                            FALSE, None)
            /\ UNCHANGED <<server_vars, picks, current_data_eeg, current_channels, buf_vars,
                           recording, packet, emitted, n_delivered, n_calls, n_raised>>

NextHeader == DecodeHeaderPacket

SpecHeader == InitHeader /\ [][NextHeader]_vars

----------------------------------------------------------------------------
(* A MicromedTRC over a recording file: header, then the samples *)

\* the header packets of the files: 1, 2 or 4 bytes per sample, ChA and ChB or
\* ChA alone, in mV with the factor 2
TRCHeaderPackets == {WidthPacket(n, two, 1, 1) : n \in {1, 2, 4}, two \in BOOLEAN}

\* the bytes from the data address on of a file with T samples of nch
\* channels: the bytes 1, 2, 3, ...
RecordingOf(T, n_bytes, nch) == [k \in 1..(T * n_bytes * nch) |-> k]

\* f.seek(data_address + start_address); f.read(packet_size): the bytes from
\* the position on, at most packet_size of them; all of them when packet_size
\* is None or negative
FileRead(bytes, start_address, packet_size) ==
    LET from == Min(start_address, Len(bytes)) + 1
        upto == IF packet_size = None \/ Get(packet_size) < 0 THEN Len(bytes)
                ELSE Min(start_address + Get(packet_size), Len(bytes))
    IN  SubSeq(bytes, from, upto)

\* the arguments of get_data
TRCPicks == {None, Some(<<ChA>>)}

Starts == 0..MaxRecording

Stops == {None} \cup {Some(n) : n \in 0..MaxRecording}

\* MicromedTRC(filename): MicromedIO.__init__(self, None), then
\* decode_data_header_packet on the bytes before the data address
InitTRC ==
    \E f \in TRCHeaderPackets, T \in 0..MaxRecording :
        \E r \in {DecodeHeader(NewHeader, None, None, f)} :
            /\ micromed_header = r.micromed_header
            /\ picks = None
            /\ picks_id = r.picks_id
            /\ current_data_eeg = None
            /\ current_channels = None
            /\ epoch_duration = 0
            /\ epoch_overlap = 0
            /\ epoch_buffer = None
            /\ current_epoch = None
            /\ current_buffer_length = 0
            /\ header_packet = Some(f)
            /\ recording = RecordingOf(T, f.n_bytes, f.n_chan)
            /\ packet = <<>>
            /\ call = Call("__init__", r.ret, 0, 0, None, FALSE, FALSE, None)
            /\ emitted = <<>>
            /\ n_delivered = 0
            /\ n_calls = 0
            /\ n_raised = 0
            /\ sock = "none"
            /\ connection = "none"

\* get_data(picks, start, stop, keep_raw, use_volt): returns current_data_eeg
\* unless decode_data_eeg_packet raises
GetData ==
    \E arg \in TRCPicks, start \in Starts, stop \in Stops, keep_raw \in BOOLEAN,
       use_volt \in BOOLEAN :
        LET n_bytes == Get(micromed_header.nb_of_bytes)
            nch == Get(micromed_header.nb_of_channels)
            start_address == start * n_bytes * nch
            packet_size == IF stop = None THEN None
                           ELSE Some((Get(stop) - start) * n_bytes * nch)
        IN  \E b_data \in {FileRead(recording, start_address, packet_size)} :
            \E r \in {decode_data_eeg_packet(micromed_header, current_data_eeg,
                                            current_channels, b_data, arg, keep_raw,
                                            use_volt, TRUE)} :
                /\ packet' = b_data
                /\ current_data_eeg' = r.current_data_eeg
                /\ current_channels' = r.current_channels
                /\ call' = [op |-> "get_data", ret |-> r.ret, size |-> Len(b_data),
                            cursor |-> 0, arg |-> arg, keep_raw |-> keep_raw,
                            check_data |-> TRUE, arg_picks |-> r.arg_picks,
                            use_volt |-> use_volt, start |-> start, stop |-> stop]
                /\ UNCHANGED <<server_vars, micromed_header, picks, picks_id, buf_vars,
                               header_packet, recording, emitted, n_delivered,
                               n_calls, n_raised>>

NextTRC == GetData

SpecTRC == InitTRC /\ [][NextTRC]_vars

----------------------------------------------------------------------------
(* The frame headers of the TCP stream: tcp.py *)

\* MicromedPacketType
PacketTypes == 0..3

\* b"MICM"
Magic == <<77, 73, 67, 77>>

\* l[a:b] for 0 <= a <= b
PySlice(l, a, b) == SubSeq(l, Min(a, Len(l)) + 1, Min(b, Len(l)))

\* to_bytes gone wrong: most significant byte first
ToBytes2BigEndian(n) == <<n \div 256, n % 256>>

\* n.to_bytes(2, byteorder="little") for 0 <= n < 2^16
ToBytes2(n) == <<n % 256, n \div 256>>

\* n.to_bytes(4, byteorder="little") for n = hi * 2^16 + lo
ToBytes4(n) == ToBytes2(n[2]) \o ToBytes2(n[1])

\* int.from_bytes(bs, "little") for at most 2 bytes
FromBytes2(bs) ==
    (IF Len(bs) >= 1 THEN bs[1] ELSE 0) + (IF Len(bs) >= 2 THEN 256 * bs[2] ELSE 0)

\* int.from_bytes(bs, "little") for at most 4 bytes, as hi * 2^16 + lo
FromBytes4(bs) == U32(FromBytes2(PySlice(bs, 2, 4)), FromBytes2(PySlice(bs, 0, 2)))

\* bytes.decode() raises UnicodeDecodeError on a byte that is not part of a
\* UTF-8 sequence: any byte above 127 next to ASCII bytes only
DecodeRaises(bs) == \E k \in 1..Len(bs) : bs[k] >= 128

\* get_tcp_header(packet_type, size)
get_tcp_header(packet_type, size) == Magic \o ToBytes2(packet_type) \o ToBytes4(size)

\* decode_tcp_header_packet(packet): the pair it returns, or the exception
decode_tcp_header_packet(pkt) ==
    IF Len(pkt) > 0
    THEN IF DecodeRaises(PySlice(pkt, 0, 4))
         THEN [ret |-> "UnicodeDecodeError", packet_type |-> None,
               next_packet_size |-> None]
         ELSE IF PySlice(pkt, 0, 4) = Magic
         THEN [ret |-> "ok", packet_type |-> Some(FromBytes2(PySlice(pkt, 4, 6))),
               next_packet_size |-> Some(FromBytes4(PySlice(pkt, 6, 10)))]
         ELSE IF DecodeRaises(pkt)
         THEN [ret |-> "UnicodeDecodeError", packet_type |-> None,
               next_packet_size |-> None]
         ELSE [ret |-> "ok", packet_type |-> None, next_packet_size |-> None]
    ELSE [ret |-> "ok", packet_type |-> None, next_packet_size |-> None]

\* the 16-bit halves of the payload sizes: the ends of the range, and the
\* values around a byte boundary
Halves == {0, 1, 255, 256, 65535}

Sizes == {U32(hi, lo) : hi \in Halves, lo \in Halves}

\* what a peer may send instead of a frame header: nothing, a short or
\* another tag, a tag with a byte that is not text
OtherFrames ==
    {<<>>, <<77, 73>>, <<77, 73, 67, 88, 0, 0, 1, 0, 0, 0>>,
     <<77, 73, 67, 88, 0, 0, 255, 0, 0, 0>>, <<255, 73, 67, 77, 0, 0, 1, 0, 0, 0>>,
     Magic \o <<1, 0>>}

\* nothing built yet
InitTcp ==
    /\ micromed_header = NewHeader
    /\ picks = None
    /\ picks_id = None
    /\ current_data_eeg = None
    /\ current_channels = None
    /\ epoch_duration = 0
    /\ epoch_overlap = 0
    /\ epoch_buffer = None
    /\ current_epoch = None
    /\ current_buffer_length = 0
    /\ header_packet = None
    /\ recording = <<>>
    /\ packet = <<>>
    /\ call = [op |-> "__init__"]
    /\ emitted = <<>>
    /\ n_delivered = 0
    /\ n_calls = 0
    /\ n_raised = 0
    /\ sock = "none"
    /\ connection = "none"

\* get_tcp_header(packet_type, size): the frame header goes out
GetTcpHeader ==
    \E t \in PacketTypes, n \in Sizes :
        /\ packet' = get_tcp_header(t, n)
        /\ call' = [op |-> "get_tcp_header", packet_type |-> t, size |-> n]
        /\ UNCHANGED <<server_vars, io_vars, buf_vars, header_packet, recording, emitted,
                       n_delivered, n_calls, n_raised>>

\* the peer sends something else
OtherFrame ==
    \E f \in OtherFrames :
        /\ packet' = f
        /\ call' = [op |-> "recv"]
        /\ UNCHANGED <<server_vars, io_vars, buf_vars, header_packet, recording, emitted,
                       n_delivered, n_calls, n_raised>>

\* decode_tcp_header_packet(packet) on the bytes received
DecodeTcpHeader ==
    /\ call.op \in {"get_tcp_header", "recv"}
    /\ \E r \in {decode_tcp_header_packet(packet)} :
           call' = [op |-> "decode_tcp_header_packet", ret |-> r.ret,
                    packet_type |-> r.packet_type,
                    next_packet_size |-> r.next_packet_size]
    /\ UNCHANGED <<server_vars, io_vars, buf_vars, header_packet, recording, packet, emitted,
                   n_delivered, n_calls, n_raised>>

NextTcp == GetTcpHeader \/ OtherFrame \/ DecodeTcpHeader

SpecTcp == InitTcp /\ [][NextTcp]_vars

----------------------------------------------------------------------------
(* A recording file turned into an mne Raw: to_mne.py *)

\* a < b for two unsigned 32-bit values
U32Less(a, b) == a[1] < b[1] \/ (a[1] = b[1] /\ a[2] < b[2])

\* the unsigned 32-bit value of a sample count n >= 0 of the model
U32Of(n) == U32(n \div 65536, n % 65536)

\* the integer of an unsigned 32-bit value below 2^31
IntOf(s) == 65536 * s[1] + s[2]

\* the keys of a dict in the order of iteration: the order of insertion,
\* which is the increasing order for the zones of the model's files
RECURSIVE KeysInOrder(_)
KeysInOrder(keys) ==
    IF keys = {} THEN <<>>
    ELSE LET first == CHOOSE k \in keys : \A m \in keys \ {k} : U32Less(k, m)
         IN  <<first>> \o KeysInOrder(keys \ {first})

\* the NOTE zones and the TRIGGER zones of the files: records by increasing
\* sample, within the data, at its end and beyond it
MneNoteZones ==
    {SelectSeq(<<Note(U32(0, 1), "a"), Note(U32(0, 2), "2"), Note(U32(0, 4), "c")>>,
               LAMBDA r : r.sample \in keep) :
       keep \in SUBSET {U32(0, 1), U32(0, 2), U32(0, 4)}}

MneTriggerZones ==
    {SelectSeq(<<Trigger(U32(0, 0), 1), Trigger(U32(0, 2), 2), Trigger(U32(1, 0), 3)>>,
               LAMBDA r : r.sample \in keep) :
       keep \in SUBSET {U32(0, 0), U32(0, 2), U32(1, 0)}}

\* the files: one channel of 2 bytes per sample at 1 Hz or 2 Hz
MneHeaderPackets ==
    {HeaderPacketOf(4, s_freq, 2, <<LabCod(ChA, 0, 1, 0, 0, 4, 1)>>, notes, trigger) :
       s_freq \in {1, 2}, notes \in MneNoteZones, trigger \in MneTriggerZones}

\* start_time and stop_time, in 1 / TimeDen s
MneTimes == 0..(MaxRecording * TimeDen)

\* the file on disk; no MicromedTRC yet
InitMne ==
    \E f \in MneHeaderPackets :
        /\ micromed_header = NewHeader
        /\ picks = None
        /\ picks_id = None
        /\ current_data_eeg = None
        /\ current_channels = None
        /\ epoch_duration = 0
        /\ epoch_overlap = 0
        /\ epoch_buffer = None
        /\ current_epoch = None
        /\ current_buffer_length = 0
        /\ header_packet = Some(f)
        /\ recording = RecordingOf(MaxRecording, f.n_bytes, f.n_chan)
        /\ packet = <<>>
        /\ call = [op |-> "__init__"]
        /\ emitted = <<>>
        /\ n_delivered = 0
        /\ n_calls = 0
        /\ n_raised = 0
        /\ sock = "none"
        /\ connection = "none"

\* Annotations gone wrong: the stop sample is in
AnnotationsThroughStop(table, start_sample, stop_sample, sfreq) ==
    LET keys == KeysInOrder(DOMAIN table)
        kept == SelectSeq(keys,
                    LAMBDA s : /\ ~U32Less(s, U32Of(start_sample))
                               /\ (stop_sample # None =>
                                     ~U32Less(U32Of(Get(stop_sample)), s)))
    IN  [k \in 1..Len(kept) |->
           [onset |-> <<IntOf(kept[k]) - start_sample, sfreq>>, duration |-> 0,
            description |-> table[kept[k]]]]

\* the annotations appended by the loops of lines 100-115 for one table
Annotations(table, start_sample, stop_sample, sfreq) ==
    LET keys == KeysInOrder(DOMAIN table)
        kept == SelectSeq(keys,
                    LAMBDA s : /\ ~U32Less(s, U32Of(start_sample))
                               /\ (stop_sample # None =>
                                     U32Less(s, U32Of(Get(stop_sample)))))
    IN  [k \in 1..Len(kept) |->
           [onset |-> <<IntOf(kept[k]) - start_sample, sfreq>>, duration |-> 0,
            description |-> table[kept[k]]]]

\* create_mne_from_micromed_recording(recording_file, None, start_time,
\* stop_time) for 0 <= start_time < stop_time, start_time within the data: a
\* new MicromedTRC, get_data, the Raw and its annotations (onsets are the
\* fractions <<numerator, denominator>>)
CreateMne ==
    \E start_time \in MneTimes,
       stop_time \in {None} \cup {Some(n) : n \in MneTimes} :
        \E h \in {DecodeHeader(NewHeader, None, None, Get(header_packet))} :
            LET hdr == h.micromed_header
                sub_channels == Get(hdr.ch_names)
                sfreq == Get(hdr.min_sampling_rate)
                start_sample == IntTrunc(start_time * sfreq, TimeDen)
                stop_sample == IF stop_time = None THEN None
                               ELSE Some(IntTrunc(Get(stop_time) * sfreq, TimeDen))
                row == Get(hdr.nb_of_bytes) * Get(hdr.nb_of_channels)
                packet_size == IF stop_sample = None THEN None
                               ELSE Some((Get(stop_sample) - start_sample) * row)
            IN  /\ start_sample < MaxRecording
                /\ stop_sample # None => start_sample < Get(stop_sample)
                /\ \E b_data \in {FileRead(recording, start_sample * row, packet_size)} :
                   \E r \in {decode_data_eeg_packet(hdr, None, None, b_data,
                                                    Some(sub_channels), FALSE, FALSE,
                                                    TRUE)} :
                       /\ micromed_header' = hdr
                       /\ picks_id' = h.picks_id
                       /\ packet' = b_data
                       /\ current_data_eeg' = r.current_data_eeg
                       /\ current_channels' = r.current_channels
                       /\ call' = [op |-> "create_mne_from_micromed_recording",
                                   ret |-> IF r.ret \in Exceptions THEN r.ret ELSE "Raw",
                                   start_time |-> start_time, stop_time |-> stop_time,
                                   annotations |->
                                       IF r.ret \in Exceptions THEN <<>>
                                       ELSE Annotations(Get(hdr.notes), start_sample,
                                                        stop_sample, sfreq)
                                            \o Annotations(Get(hdr.markers), start_sample,
                                                           stop_sample, sfreq)]
                       /\ UNCHANGED <<server_vars, picks, buf_vars, header_packet, recording, emitted,
                                      n_delivered, n_calls, n_raised>>

NextMne == CreateMne

SpecMne == InitMne /\ [][NextMne]_vars

----------------------------------------------------------------------------
(* A MicromedBuffer that gets a header packet at any time of the stream *)

\* MicromedBuffer(epoch_duration, epoch_overlap, picks) with 0 <= overlap <
\* duration
InitSession ==
    \E o \in {0, 1}, pk \in {None, Some(<<ChA, ChB>>)} :
        /\ micromed_header = NewHeader
        /\ picks = pk
        /\ picks_id = None
        /\ current_data_eeg = None
        /\ current_channels = None
        /\ epoch_duration = 3
        /\ epoch_overlap = o
        /\ epoch_buffer = None
        /\ current_epoch = None
        /\ current_buffer_length = 0
        /\ header_packet = None
        /\ recording = <<>>
        /\ packet = <<>>
        /\ call = Call("__init__", "None", 0, 0, None, FALSE, FALSE, None)
        /\ emitted = <<>>
        /\ n_delivered = 0
        /\ n_calls = 0
        /\ n_raised = 0
        /\ sock = "none"
        /\ connection = "none"

\* a HEADER packet, the first or a later one: decode_data_header_packet
SessionHeaderPacket ==
    \E f \in HeaderPackets :
        \E r \in {DecodeHeader(micromed_header, picks, picks_id, f)} :
            /\ header_packet # Some(f)
            /\ header_packet' = Some(f)
            /\ micromed_header' = r.micromed_header
            /\ picks_id' = r.picks_id
            /\ call' = Call("decode_data_header_packet", r.ret, 0,
                            current_buffer_length, None, FALSE, FALSE, None)
            /\ UNCHANGED <<server_vars, picks, current_data_eeg, current_channels, buf_vars, recording,
                           packet, emitted, n_delivered, n_calls, n_raised>>

\* an EEG_DATA packet of the stream
SessionEegPacket == n_calls < MaxSessionCalls /\ EegPacket

NextSession == SessionHeaderPacket \/ SessionEegPacket

SpecSession == InitSession /\ [][NextSession]_vars

----------------------------------------------------------------------------
(* A MicromedIO whose caller passes its own list of picks *)

\* the header packets: the channel ChA in mV or in %, then a marker channel;
\* 2 bytes per sample, or the unsupported 3
PicksHeaderPackets ==
    {HeaderPacketOf(4, 1, n_bytes,
                    <<LabCod(ChA, 0, 1, 0, 0, 4, k), LabCod(ChMkr, 0, 1, 0, 0, 50, 1)>>,
                    <<>>, <<>>) :
       n_bytes \in {2, 3}, k \in {1, 100}}

\* the lists of the caller
CallerPicks == {None, Some(<<ChA>>), Some(<<ChA, ChMkr>>), Some(<<ChMkr, ChA>>)}

\* a MicromedIO with a decoded header
InitPicks ==
    \E f \in PicksHeaderPackets :
        \E r \in {DecodeHeader(NewHeader, None, None, f)} :
            /\ micromed_header = r.micromed_header
            /\ picks = None
            /\ picks_id = r.picks_id
            /\ current_data_eeg = None
            /\ current_channels = None
            /\ epoch_duration = 0
            /\ epoch_overlap = 0
            /\ epoch_buffer = None
            /\ current_epoch = None
            /\ current_buffer_length = 0
            /\ header_packet = Some(f)
            /\ recording = <<>>
            /\ packet = <<>>
            /\ call = Call("decode_data_header_packet", r.ret, 0, 0, None, FALSE, FALSE,
                           None)
            /\ emitted = <<>>
            /\ n_delivered = 0
            /\ n_calls = 0
            /\ n_raised = 0
            /\ sock = "none"
            /\ connection = "none"

\* decode_data_eeg_packet(packet, picks, keep_raw, use_volt, check_data);
\* arg_picks is the caller's list after the call
DecodeWithPicks ==
    \E pkt \in BytePackets, arg \in CallerPicks, keep_raw \in BOOLEAN,
       use_volt \in BOOLEAN, check_data \in BOOLEAN :
        \E r \in {decode_data_eeg_packet(micromed_header, current_data_eeg,
                                        current_channels, pkt, arg, keep_raw,
                                        use_volt, check_data)} :
            /\ packet' = pkt
            /\ current_data_eeg' = r.current_data_eeg
            /\ current_channels' = r.current_channels
            /\ call' = [Call("decode_data_eeg_packet", r.ret, Len(pkt), 0, arg,
                             keep_raw, check_data, r.arg_picks)
                          EXCEPT !.use_volt = use_volt]
            /\ UNCHANGED <<server_vars, micromed_header, picks, picks_id, buf_vars, header_packet,
                           recording, emitted, n_delivered, n_calls, n_raised>>

NextPicks == DecodeWithPicks

SpecPicks == InitPicks /\ [][NextPicks]_vars

----------------------------------------------------------------------------
(* The tcp_to_epoch server: one session per connection *)

\* the exceptions that end a session: every Exception is caught at the end
\* of the inner loop
SessionErrors == Exceptions \cup {"AttributeError", "UnicodeDecodeError"}

\* what recv(10) can hand to the server: a frame header of every packet type
\* and of an unknown one, or something else (nothing when the peer closed)
ServerFrames == {get_tcp_header(t, U32(0, 1)) : t \in 0..4} \cup OtherFrames

\* where run sends a frame: the packet type of its header, "Wrong header"
\* when decode_tcp_header_packet returns None, or the exception it raises
Dispatch(frame) ==
    LET r == decode_tcp_header_packet(frame)
    IN  IF r.ret # "ok" THEN r.ret
        ELSE IF r.packet_type = None THEN "Wrong header"
        ELSE IF Get(r.packet_type) \in PacketTypes THEN ToString(Get(r.packet_type))
        ELSE "Unknown tcp_data_type"

\* the clean up of the connection that forgets to close it
LeaveConnection(c) == c

\* the clean up of the connection: closed unless it is None
CloseConnection(c) == IF c # "none" THEN "closed" ELSE c

\* run(address, port, epoch_size, overlap) starts: no socket yet; the first
\* MicromedBuffer is made on the first connection
InitServer ==
    \E o \in {0, 1} :
        /\ micromed_header = NewHeader
        /\ picks = None
        /\ picks_id = None
        /\ current_data_eeg = None
        /\ current_channels = None
        /\ epoch_duration = 3
        /\ epoch_overlap = o
        /\ epoch_buffer = None
        /\ current_epoch = None
        /\ current_buffer_length = 0
        /\ header_packet = None
        /\ recording = <<>>
        /\ packet = <<>>
        /\ call = Call("run", "None", 0, 0, None, FALSE, FALSE, None)
        /\ emitted = <<>>
        /\ n_delivered = 0
        /\ n_calls = 0
        /\ n_raised = 0
        /\ sock = "none"
        /\ connection = "none"

\* the top of the outer loop: socket(), bind(), listen(), connection = None
Bind ==
    /\ sock \in {"none", "closed"}
    /\ sock' = "listening"
    /\ connection' = "none"
    /\ call' = Call("bind", "None", 0, current_buffer_length, None, FALSE, FALSE, None)
    /\ UNCHANGED <<io_vars, buf_vars, header_packet, recording, packet, emitted,
                   n_delivered, n_calls, n_raised>>

\* accept() returns a connection (after any number of timeouts), and a new
\* MicromedBuffer(epoch_duration=epoch_size, epoch_overlap=overlap) is made
Accept ==
    /\ sock = "listening"
    /\ connection = "none"
    /\ connection' = "open"
    /\ micromed_header' = NewHeader
    /\ picks' = None
    /\ picks_id' = None
    /\ current_data_eeg' = None
    /\ current_channels' = None
    /\ epoch_buffer' = None
    /\ current_epoch' = None
    /\ current_buffer_length' = 0
    /\ header_packet' = None
    /\ packet' = <<>>
    /\ call' = Call("__init__", "None", 0, 0, None, FALSE, FALSE, None)
    /\ emitted' = <<>>
    /\ n_delivered' = 0
    /\ n_calls' = 0
    /\ n_raised' = 0
    /\ UNCHANGED <<sock, epoch_duration, epoch_overlap, recording>>

\* the inner loop is at recv(10): a connection is open and nothing has been
\* raised
Serving == sock = "listening" /\ connection = "open" /\ call.ret \notin SessionErrors

\* a HEADER frame: decode_data_header_packet(b_data)
ServerHeader ==
    /\ Serving
    /\ \E frame \in ServerFrames : Dispatch(frame) = "0"
    /\ SessionHeaderPacket

\* an EEG_DATA frame: decode_data_eeg_packet(b_data), update_epoch_buffer()
ServerEegData ==
    /\ Serving
    /\ \E frame \in ServerFrames : Dispatch(frame) = "1"
    /\ SessionEegPacket

\* a NOTE frame: tcp.py has no decode_tcp_note_packet, the lookup raises
ServerNote ==
    /\ Serving
    /\ \E frame \in ServerFrames : Dispatch(frame) = "2"
    /\ call' = Call("decode_tcp_note_packet", "AttributeError", 0,
                    current_buffer_length, None, FALSE, FALSE, None)
    /\ UNCHANGED <<server_vars, io_vars, buf_vars, header_packet, recording, packet,
                   emitted, n_delivered, n_calls, n_raised>>

\* a MARKER frame: decode_tcp_marker_packet(b_data), logged
ServerMarker ==
    /\ Serving
    /\ \E frame \in ServerFrames : Dispatch(frame) = "3"
    /\ call' = Call("decode_tcp_marker_packet", "None", 0, current_buffer_length,
                    None, FALSE, FALSE, None)
    /\ UNCHANGED <<server_vars, io_vars, buf_vars, header_packet, recording, packet,
                   emitted, n_delivered, n_calls, n_raised>>

\* anything else: an unknown packet type, a header without the tag, nothing
\* (the peer closed), or bytes that decode() refuses
ServerBadFrame ==
    /\ Serving
    /\ \E frame \in ServerFrames :
           /\ Dispatch(frame) \notin {"0", "1", "2", "3"}
           /\ packet' = frame
           /\ call' = Call("decode_tcp_header_packet",
                           IF Dispatch(frame) = "UnicodeDecodeError"
                           THEN "UnicodeDecodeError" ELSE "ValueError",
                           Len(frame), current_buffer_length, None, FALSE, FALSE, None)
    /\ UNCHANGED <<server_vars, io_vars, buf_vars, header_packet, recording, emitted,
                   n_delivered, n_calls, n_raised>>

\* except Exception: logged; finally: connection.close() unless it is None,
\* then sock.close()
Finally ==
    /\ connection = "open"
    /\ call.ret \in SessionErrors
    /\ connection' = CloseConnection(connection)
    /\ sock' = "closed"
    /\ call' = Call("close", "None", 0, current_buffer_length, None, FALSE, FALSE, None)
    /\ UNCHANGED <<io_vars, buf_vars, header_packet, recording, packet, emitted,
                   n_delivered, n_calls, n_raised>>

NextServer ==
    \/ Bind
    \/ Accept
    \/ ServerHeader
    \/ ServerEegData
    \/ ServerNote
    \/ ServerMarker
    \/ ServerBadFrame
    \/ Finally

SpecServer == InitServer /\ [][NextServer]_vars

----------------------------------------------------------------------------
(* The emulator of a Micromed device: scripts/emulate_online_trc.py *)

\* packet_time, in ms
PacketTimes == {500, 1000, 2000}

\* a table has an entry at or before the sample: the loop of the markers
\* (or of the notes) has something to send
HasDue(table, sample) == \E s \in DOMAIN table : ~U32Less(U32Of(sample), s)

\* b_data_trc[header_address + c * sample_length :
\*            header_address + (c + n) * sample_length]
DataToSend(bytes, c, n, sample_length) ==
    PySlice(bytes, c * sample_length, (c + n) * sample_length)

\* the TRC file on disk: a header and 0 to MaxRecording samples of data; the
\* emulator has not started
InitEmulator ==
    \E f \in MneHeaderPackets, T \in 0..MaxRecording :
        /\ micromed_header = NewHeader
        /\ picks = None
        /\ picks_id = None
        /\ current_data_eeg = None
        /\ current_channels = None
        /\ epoch_duration = 0
        /\ epoch_overlap = 0
        /\ epoch_buffer = None
        /\ current_epoch = None
        /\ current_buffer_length = 0
        /\ header_packet = Some(f)
        /\ recording = RecordingOf(T, f.n_bytes, f.n_chan)
        /\ packet = <<>>
        /\ call = [op |-> "__init__"]
        /\ emitted = <<>>
        /\ n_delivered = 0
        /\ n_calls = 0
        /\ n_raised = 0
        /\ sock = "none"
        /\ connection = "none"

\* run(file, address, port, packet_time) up to the inner loop: the file is
\* read, its header decoded, the socket connected and the HEADER frame sent
EmulatorStart ==
    \E packet_time \in PacketTimes :
        \E h \in {DecodeHeader(NewHeader, None, None, Get(header_packet))} :
            /\ sock = "none"
            /\ h.ret \notin Exceptions
            /\ micromed_header' = h.micromed_header
            /\ picks_id' = h.picks_id
            /\ sock' = "connected"
            /\ call' = [op |-> "send", ret |-> "None", packet_type |-> 0,
                        n_samples_per_packet |->
                            IntTrunc(packet_time * Get(h.micromed_header.min_sampling_rate),
                                     1000),
                        current_data_sample |-> 0, sent |-> <<>>]
            /\ UNCHANGED <<connection, picks, current_data_eeg, current_channels,
                           buf_vars, header_packet, recording, packet, emitted,
                           n_delivered, n_calls, n_raised>>

\* one turn of the inner loop whose time has come: the cursor moves on, then
\* the check of the delay (late: the clock is 5 packets ahead, which it
\* always is with packets of no sample), the markers and the notes that are
\* due (tcp.py has no encode_marker_packet and no encode_note_packet), the
\* EEG_DATA frame, the end of the file; the socket is closed on the way out
EmulatorTurn ==
    \E late \in BOOLEAN :
        LET n == call.n_samples_per_packet
            c == call.current_data_sample + n
            sample_length == Get(micromed_header.nb_of_channels)
                             * Get(micromed_header.nb_of_bytes)
            data_to_send == DataToSend(recording, c, n, sample_length)
            ret == IF late THEN "return"
                   ELSE IF HasDue(Get(micromed_header.markers), c)
                           \/ HasDue(Get(micromed_header.notes), c)
                   THEN "AttributeError"
                   ELSE IF (c + n) * sample_length >= Len(recording)
                   THEN "TRC file over"
                   ELSE "None"
            sends == ret \in {"TRC file over", "None"}
        IN  /\ sock = "connected"
            /\ n = 0 => late
            /\ call' = [op |-> "send", ret |-> ret,
                        packet_type |-> IF sends THEN 1 ELSE call.packet_type,
                        n_samples_per_packet |-> n, current_data_sample |-> c,
                        sent |-> IF sends THEN call.sent \o data_to_send ELSE call.sent]
            /\ packet' = IF sends THEN data_to_send ELSE packet
            /\ sock' = IF ret = "None" THEN sock ELSE "closed"
            /\ UNCHANGED <<connection, io_vars, buf_vars, header_packet, recording,
                           emitted, n_delivered, n_calls, n_raised>>

NextEmulator == EmulatorStart \/ EmulatorTurn

SpecEmulator == InitEmulator /\ [][NextEmulator]_vars

----------------------------------------------------------------------------
(* Vocabulary of the properties *)

HasHeader == micromed_header.min_sampling_rate # None

\* W, the window length in samples
WindowLength == NbSamples(micromed_header, epoch_duration)

\* O, the overlap length in samples
OverlapLength == NbSamples(micromed_header, epoch_overlap)

\* a header was decoded with pickable channels and 0 <= O < W
GoodWindow ==
    /\ HasHeader
    /\ picks_id # None
    /\ 0 <= OverlapLength
    /\ OverlapLength < WindowLength

\* the name of the channel that row r (1-based) of the buffer is for
PickedName(r) ==
    IF picks = None THEN Get(micromed_header.ch_names)[r] ELSE Get(picks)[r]

\* the converted sample of the named channel at time t of the stream
StreamSample(name, t) ==
    LET names == Get(micromed_header.ch_names)
        i == IndexOf(name, names)
    IN  Calibrate(RawSample(t, i, Len(names)), Get(micromed_header.elec_refs)[i + 1])

\* the matrix decode_data_eeg_packet leaves for the next s samples of the stream
NextChunk(s) ==
    Get(decode_data_eeg_packet(micromed_header, current_data_eeg, current_channels,
            StreamPacket(n_delivered, s, Get(micromed_header.nb_of_channels)),
            None, FALSE, FALSE, TRUE).current_data_eeg)

\* the buffer after update_epoch_buffer on the data, from the buffer b
After(b, data, g) ==
    update_epoch_buffer([b EXCEPT !.ret = "None"], micromed_header, picks_id, data, g)

----------------------------------------------------------------------------
(* C1: every emitted window has W samples per row, and the first O samples
   of every emitted window after the first are the last O samples of the
   window emitted before it.  Stated for 0 <= O < W. *)
C1_WindowsOverlap ==
    GoodWindow =>
        \A k \in 1..Len(emitted) :
            /\ \A r \in 1..Len(emitted[k]) : Len(emitted[k][r]) = WindowLength
            /\ k > 1 =>
                 Cols(emitted[k], 0, OverlapLength)
                   = Cols(emitted[k - 1], WindowLength - OverlapLength, WindowLength)

(* C2: one call with a chunk of s > W - c samples leaves the same
   current_epoch, epoch_buffer and cursor as two calls that deliver the
   first W - c samples and then the other s - (W - c).  Stated for
   0 <= O < W, in every reachable state, for every next chunk. *)
C2_SplitAtBoundary ==
    GoodWindow =>
        \A s \in 1..MaxChunk, g \in GarbageVals :
            LET lead == WindowLength - current_buffer_length
                data == NextChunk(s)
                one == After(Buffer, data, g)
                first == After(Buffer, Cols(data, 0, lead), g)
                two == After(first, ColsFrom(data, lead), g)
            IN  (lead >= 0 /\ s > lead) =>
                    /\ one.current_epoch = two.current_epoch
                    /\ one.epoch_buffer = two.epoch_buffer
                    /\ one.current_buffer_length = two.current_buffer_length

(* C3: a call with s samples at cursor c sets the cursor to c + s and returns
   False when c + s < W, sets it to O and returns True when c + s = W, and
   sets it to O + (c + s - W) and returns True when c + s > W.  Stated for
   0 <= O < W. *)
C3_CursorAndResult ==
    (GoodWindow /\ call.op = "update_epoch_buffer") =>
        LET full == call.cursor + call.size
        IN  /\ full < WindowLength =>
                (current_buffer_length = full /\ call.ret = "False")
            /\ full = WindowLength =>
                (current_buffer_length = OverlapLength /\ call.ret = "True")
            /\ full > WindowLength =>
                (current_buffer_length = OverlapLength + (full - WindowLength)
                 /\ call.ret = "True")

(* C4: after calls that delivered n samples in total, the number of calls
   that returned True is 0 when n < W and 1 + floor((n - W) / (W - O)) when
   n >= W.  Stated for 0 <= O < W and while no call has raised. *)
C4_OneWindowPerSlide ==
    (GoodWindow /\ n_raised = 0) =>
        Len(emitted) = IF n_delivered < WindowLength THEN 0
                       ELSE 1 + ((n_delivered - WindowLength)
                                 \div (WindowLength - OverlapLength))

(* C5: a MicromedBuffer with epoch_overlap >= epoch_duration or with a
   non-positive epoch_duration is not constructed, so update_epoch_buffer
   is never called on one. *)
C5_InvalidWindowConfigRejected ==
    (epoch_overlap >= epoch_duration \/ epoch_duration <= 0) => n_calls = 0

(* C6: row r of every emitted window, and of the filled part of the fill
   buffer, holds the samples of channel picks[r]: every such column is the
   samples of the picked channels, in the order of picks, at one time of the
   stream. *)
C6_RowsFollowPicks ==
    (HasHeader /\ picks_id # None) =>
        LET IsSampleColumn(M, j) ==
                \E t \in 0..(n_delivered - 1) :
                    \A r \in 1..Len(Get(picks_id)) : M[r][j] = StreamSample(PickedName(r), t)
        IN  /\ \A k \in 1..Len(emitted) :
                   /\ Len(emitted[k]) = Len(Get(picks_id))
                   /\ \A j \in 1..Shape1(emitted[k]) : IsSampleColumn(emitted[k], j)
            /\ epoch_buffer # None =>
                   \A j \in 1..Min(current_buffer_length, Shape1(Get(epoch_buffer))) :
                       IsSampleColumn(Get(epoch_buffer), j)

\* a window was emitted by a buffer whose picks are not in the header's order
C6_Witness ==
    /\ picks = Some(<<ChB, ChA>>)
    /\ HasHeader
    /\ IndexOf(ChA, Get(micromed_header.ch_names)) < IndexOf(ChB, Get(micromed_header.ch_names))
    /\ Len(emitted) >= 2
    /\ WindowLength >= 2
    /\ current_buffer_length >= 1

----------------------------------------------------------------------------
(* Vocabulary of the decoder properties *)

\* the last call was decode_data_eeg_packet
Decoded == call.op = "decode_data_eeg_packet"

\* every name of the list is a channel of the header
AllKnown(pk) == \A k \in 1..Len(pk) : InList(pk[k], Get(micromed_header.ch_names))

\* samples per channel in the packet at hand
PacketSamples ==
    (PacketSize(packet) \div Get(micromed_header.nb_of_bytes))
        \div Get(micromed_header.nb_of_channels)

\* the samples of the named channel in the packet at hand, converted or raw
RowOf(name, keep_raw) ==
    ChannelRow(micromed_header,
               RawValues(packet, Get(micromed_header.nb_of_bytes)),
               IndexOf(name, Get(micromed_header.ch_names)), PacketSamples, keep_raw,
               FALSE)

\* the last call with the two picks in the other order
OtherOrder ==
    decode_data_eeg_packet(micromed_header, current_data_eeg, current_channels,
                           packet, Some(<<Get(call.arg)[2], Get(call.arg)[1]>>),
                           call.keep_raw, FALSE, call.check_data)

\* the last call decoded two different channels of the header and returned
TwoPicksDecoded ==
    /\ Decoded
    /\ call.arg # None
    /\ Len(Get(call.arg)) = 2
    /\ AllKnown(Get(call.arg))
    /\ call.ret \in {"True", "False"}

(* C7: after decode_data_eeg_packet with check_data=True and requested picks
   (channels of the header, in any order), the matrix has one row per
   requested channel, current_channels is the requested list, and row i holds
   the samples of the i-th name of current_channels. *)
C7_RowsAreTheRequestedChannels ==
    (Decoded /\ call.check_data /\ call.arg # None /\ AllKnown(Get(call.arg))
       /\ call.ret \in {"True", "False"}) =>
        LET data == Get(current_data_eeg)
            channels == Get(current_channels)
        IN  /\ Len(data) = Len(Get(call.arg))
            /\ channels = Get(call.arg)
            /\ \A i \in 1..Len(data) : data[i] = RowOf(channels[i], call.keep_raw)

(* C8: decode_data_eeg_packet with check_data=True (converted values)
   raises nothing, leaves the matrix in current_data_eeg, and returns False
   exactly when some channel of the header whose name contains MKR has a
   sample whose absolute value is not 50. *)
C8_VerdictIsTheMarkerLevel ==
    (Decoded /\ call.check_data /\ ~call.keep_raw
       /\ (call.arg = None \/ AllKnown(Get(call.arg)))) =>
        LET names == Get(micromed_header.ch_names)
            off == \E k \in 1..Len(names) :
                       /\ HasMKR(names[k])
                       /\ \E t \in 1..PacketSamples :
                              ~IsClose(Abs(RowOf(names[k], FALSE)[t]), MkrLevel)
        IN  /\ call.ret \in {"True", "False"}
            /\ current_data_eeg # None
            /\ (call.ret = "False") <=> off

(* C9 as claimed: decoding the same chunk with picks [A, B] and with picks
   [B, A] yields two matrices that are not identical, row 0 of one being
   row 1 of the other (for channels whose samples differ). *)
C9_PicksOrderPermutesRows ==
    (TwoPicksDecoded
       /\ RowOf(Get(call.arg)[1], call.keep_raw) # RowOf(Get(call.arg)[2], call.keep_raw)) =>
        LET data == Get(current_data_eeg)
            other == Get(OtherOrder.current_data_eeg)
        IN  /\ data # other
            /\ data[1] = other[2]
            /\ data[2] = other[1]

(* C9 as amended: the rows of a decoded chunk follow the order of the
   channels in the header, whatever the order of the picks: decoding the same
   chunk with picks [A, B] and with picks [B, A] yields identical matrices;
   without the integrity check, row 0 is the one of A and B that comes first
   in the header and row 1 the other. *)
C9_RowsFollowHeaderOrder ==
    TwoPicksDecoded =>
        LET data == Get(current_data_eeg)
            names == Get(micromed_header.ch_names)
            a == Get(call.arg)[1]
            b == Get(call.arg)[2]
            lo == IF IndexOf(a, names) < IndexOf(b, names) THEN a ELSE b
            hi == IF IndexOf(a, names) < IndexOf(b, names) THEN b ELSE a
        IN  /\ data = Get(OtherOrder.current_data_eeg)
            /\ ~call.check_data =>
                   data = <<RowOf(lo, call.keep_raw), RowOf(hi, call.keep_raw)>>

\* two channels with different samples were decoded with picks against the
\* order of the header
C9_Witness ==
    /\ TwoPicksDecoded
    /\ call.arg = Some(<<ChB, ChA>>)
    /\ ~call.check_data
    /\ PacketSamples >= 1
    /\ RowOf(ChA, call.keep_raw) # RowOf(ChB, call.keep_raw)
    /\ IndexOf(ChA, Get(micromed_header.ch_names))
         < IndexOf(ChB, Get(micromed_header.ch_names))

(* C10: a call of decode_data_eeg_packet with a pick that is not a channel of
   the header fails with the unknown-channel error (ValueError). *)
C10_UnknownPickFails ==
    (Decoded /\ call.arg # None /\ ~AllKnown(Get(call.arg))) =>
        call.ret = "ValueError"

----------------------------------------------------------------------------
(* Vocabulary of the properties on widths and units *)

\* the declared bytes per sample is one the decoder supports
GoodWidth ==
    /\ micromed_header.nb_of_bytes # None
    /\ Get(micromed_header.nb_of_bytes) \in {1, 2, 4}

\* the last call asked for channels of the header, or for all
KnownPicks == call.arg = None \/ AllKnown(Get(call.arg))

\* the channels of the header that the last call asked for, in header order
AskedNames ==
    SelectSeq(Get(micromed_header.ch_names),
              LAMBDA ch : call.arg = None \/ InList(ch, Get(call.arg)))

\* the unit code in the header packet of the named channel
UnitCodeOf(name) ==
    Get(header_packet).labcod[IndexOf(name, Get(micromed_header.ch_names)) + 1].k

\* the unit codes with a ratio to the volt, and the exponent of the ratio
VoltCodes == {-1, 0, 1, 2}

VoltExpOf(k) == IF k = -1 THEN -9 ELSE IF k = 0 THEN -6 ELSE IF k = 1 THEN -3 ELSE 0

\* the last call on the same packet with other flags or another header
Redecode(header, keep_raw, use_volt) ==
    decode_data_eeg_packet(header, current_data_eeg, current_channels, packet,
                           call.arg, keep_raw, use_volt, call.check_data)

(* C11: for a packet of any length L and a supported width,
   decode_data_eeg_packet (known picks, no conversion to volts) raises nothing
   and leaves floor(L / bytes_per_sample / channel_count) samples in every
   row. *)
C11_AnyLengthDecodes ==
    (Decoded /\ GoodWidth /\ KnownPicks /\ ~call.use_volt) =>
        /\ call.ret \in {"True", "False"}
        /\ \A r \in 1..Len(Get(current_data_eeg)) :
               Len(Get(current_data_eeg)[r])
                 = (Len(packet) \div Get(micromed_header.nb_of_bytes))
                     \div Get(micromed_header.nb_of_channels)

(* C12: decoding a packet with a header that declares 2 bytes per sample and
   with the same header declaring 1 byte per sample gives the same outcome
   and the same matrix. *)
C12_WidthsOneAndTwoAlike ==
    (Decoded /\ micromed_header.nb_of_bytes = Some(2)) =>
        LET one == Redecode([micromed_header EXCEPT !.nb_of_bytes = Some(1)],
                            call.keep_raw, call.use_volt)
        IN  /\ one.ret = call.ret
            /\ one.current_data_eeg = current_data_eeg

(* C13: when the header's bytes per sample is not 1, 2 or 4, every call of
   decode_data_eeg_packet raises ValueError and leaves current_data_eeg and
   current_channels as they were before the call. *)
C13_UnsupportedWidthFails ==
    [][(call'.op = "decode_data_eeg_packet" /\ ~GoodWidth) =>
          /\ call'.ret = "ValueError"
          /\ current_data_eeg' = current_data_eeg
          /\ current_channels' = current_channels]_vars

\* a call failed on a header of width 3 after a chunk had been decoded
C13_Witness ==
    /\ Decoded
    /\ micromed_header.nb_of_bytes = Some(3)
    /\ call.ret = "ValueError"
    /\ current_data_eeg # None
    /\ Shape1(Get(current_data_eeg)) >= 1

(* C14: decode_data_eeg_packet with use_volt=True (calibrated values) raises
   the unit error (ValueError) whenever a decoded channel's unit code in the
   header is not one of nanovolt, microvolt, millivolt, volt. *)
C14_OtherUnitsFail ==
    (Decoded /\ GoodWidth /\ call.use_volt /\ ~call.keep_raw
       /\ \E k \in 1..Len(AskedNames) : UnitCodeOf(AskedNames[k]) \notin VoltCodes) =>
        call.ret = "ValueError"

(* C15: for every channel whose unit code has a ratio to the volt, every
   value decoded with use_volt=True (calibrated values) is the value decoded
   with use_volt=False times the ratio of the channel's unit. *)
C15_VoltIsUnitTimesRatio ==
    (Decoded /\ call.use_volt /\ ~call.keep_raw /\ call.ret \in {"True", "False"}) =>
        LET plain == Redecode(micromed_header, FALSE, FALSE)
            data == Get(current_data_eeg)
        IN  /\ plain.ret \in {"True", "False"}
            /\ Len(data) = Len(Get(plain.current_data_eeg))
            /\ \A r \in 1..Len(data) :
                   UnitCodeOf(AskedNames[r]) \in VoltCodes =>
                       data[r] = [t \in 1..Len(Get(plain.current_data_eeg)[r]) |->
                                    Volt(Get(plain.current_data_eeg)[r][t],
                                         VoltExpOf(UnitCodeOf(AskedNames[r])))]

\* a chunk of two channels with different units was decoded in volts
C15_Witness ==
    /\ Decoded
    /\ call.use_volt
    /\ ~call.keep_raw
    /\ call.ret = "True"
    /\ call.arg = None
    /\ Len(Get(current_data_eeg)) = 2
    /\ Shape1(Get(current_data_eeg)) >= 1
    /\ UnitCodeOf(ChA) = -1
    /\ UnitCodeOf(ChB) = 1

----------------------------------------------------------------------------
(* Vocabulary of the properties on header packets *)

\* the last call was decode_data_header_packet
HeaderDecoded == call.op = "decode_data_header_packet"

\* the places of a NOTE zone, and of a TRIGGER zone, that hold the sentinel
NoteSentinels(zone) == {k \in 1..Len(zone) : zone[k].sample = U32(0, 0)}

TriggerSentinels(zone) ==
    {k \in 1..Len(zone) : zone[k].sample = U32(65535, 65535) /\ zone[k].code = 65535}

\* the records of a zone that precede the first of the places stops
BeforeSentinel(zone, stops) ==
    IF stops = {} THEN zone
    ELSE SubSeq(zone, 1, (CHOOSE k \in stops : \A m \in stops : k <= m) - 1)

\* the table holds the records, vals[k] being the value of recs[k]: its keys
\* are the records' samples and the value of a sample is that of the last
\* record with it
HoldsRecords(table, recs, vals) ==
    /\ DOMAIN table = {recs[k].sample : k \in 1..Len(recs)}
    /\ \A k \in 1..Len(recs) :
           (\A m \in (k + 1)..Len(recs) : recs[m].sample # recs[k].sample) =>
               table[recs[k].sample] = vals[k]

(* C16: decode_data_header_packet raises whenever a channel's calibration
   record has logical_max <= logical_min. *)
C16_EmptyLogicalRangeFails ==
    (HeaderDecoded
       /\ \E k \in 1..Get(header_packet).n_chan :
              Get(header_packet).labcod[k].l_max <= Get(header_packet).labcod[k].l_min) =>
        call.ret \in Exceptions

(* C17: after a header decode, the notes table holds exactly the NOTE
   records that precede the first record with sample 0, and the markers table
   exactly the TRIGGER records that precede the first record equal to
   (4294967295, 65535); the records from the sentinel on are ignored. *)
C17_TablesStopAtSentinel ==
    (HeaderDecoded /\ call.ret = "None") =>
        LET notes == BeforeSentinel(Get(header_packet).notes,
                                    NoteSentinels(Get(header_packet).notes))
            trigger == BeforeSentinel(Get(header_packet).trigger,
                                      TriggerSentinels(Get(header_packet).trigger))
        IN  /\ HoldsRecords(Get(micromed_header.notes), notes,
                            [k \in 1..Len(notes) |-> notes[k].text])
            /\ HoldsRecords(Get(micromed_header.markers), trigger,
                            [k \in 1..Len(trigger) |-> ToString(trigger[k].code)])

\* a trigger zone with a record that has the sentinel's sample but not its
\* code, then the sentinel, then one more record, was decoded
C17_Witness ==
    /\ HeaderDecoded
    /\ call.ret = "None"
    /\ Get(header_packet).trigger
         = <<Trigger(U32(65535, 65535), 2), Trigger(U32(65535, 65535), 65535),
             Trigger(U32(0, 1), 65535)>>
    /\ DOMAIN Get(micromed_header.markers) = {U32(65535, 65535)}

(* C18: decode_data_header_packet raises whenever the header type byte is
   not 4. *)
C18_OtherHeaderTypesFail ==
    (HeaderDecoded /\ Get(header_packet).header_type # 4) => call.ret \in Exceptions

(* C19: when decode_data_header_packet raises, every field of
   micromed_header and picks_id are as they were before the call. *)
C19_NoPartialHeader ==
    [][(call'.op = "decode_data_header_packet" /\ call'.ret \in Exceptions) =>
          /\ micromed_header' = micromed_header
          /\ picks_id' = picks_id]_vars

----------------------------------------------------------------------------
(* Vocabulary of the properties on recordings *)

\* the number of samples of the recording
RecordingSamples ==
    Len(recording) \div (Get(header_packet).n_bytes * Get(header_packet).n_chan)

\* the integer that the file holds for sample s (from 0) of channel i (from
\* 0): its bytes, least significant first
RecordedRaw(s, i) ==
    LET n_bytes == Get(header_packet).n_bytes
        at == (s * Get(header_packet).n_chan + i) * n_bytes
        lo == recording[at + 1] + (IF n_bytes >= 2 THEN 256 * recording[at + 2] ELSE 0)
        hi == IF n_bytes = 4 THEN recording[at + 3] + 256 * recording[at + 4] ELSE 0
    IN  lo + 65536 * (IF hi >= 32768 THEN hi - 65536 ELSE hi)

\* sample s of channel i as get_data is asked to give it: raw, in the
\* channel's unit (minus the ground, times the factor 2), or in volts
RecordedValue(s, i, keep_raw, use_volt) ==
    LET c == Get(header_packet).labcod[i + 1]
        scaled == (RecordedRaw(s, i) - c.logical_ground)
                    * ((c.ph_max - c.ph_min) \div (c.l_max - c.l_min + 1))
    IN  IF keep_raw THEN RecordedRaw(s, i)
        ELSE IF use_volt THEN Volt(scaled, VoltExpOf(c.k))
        ELSE scaled

(* C20: get_data(start, stop) with 0 <= start <= stop <= T returns one row per
   asked channel with stop - start columns, column t being sample start + t of
   the recording; with stop omitted it returns the T - start samples from
   start on. *)
C20_GetDataSlices ==
    (call.op = "get_data" /\ call.start <= RecordingSamples
       /\ (call.stop # None =>
             call.start <= Get(call.stop) /\ Get(call.stop) <= RecordingSamples)) =>
        LET stop == IF call.stop = None THEN RecordingSamples ELSE Get(call.stop)
            names == AskedNames
        IN  /\ call.ret = "True"
            /\ Len(Get(current_data_eeg)) = Len(names)
            /\ \A r \in 1..Len(names) :
                   Get(current_data_eeg)[r]
                     = [t \in 1..(stop - call.start) |->
                          RecordedValue(call.start + t - 1,
                                        IndexOf(names[r], Get(micromed_header.ch_names)),
                                        call.keep_raw, call.use_volt)]

----------------------------------------------------------------------------
(* C21: for every packet type t in 0..3 and payload size n < 2^32,
   get_tcp_header(t, n) is the 10 bytes M, I, C, M, then t in 2 bytes and n in
   4 bytes, least significant first, and decode_tcp_header_packet of these
   bytes returns (t, n). *)
C21_TcpHeaderRoundTrip ==
    /\ call.op = "get_tcp_header" =>
           /\ Len(packet) = 10
           /\ SubSeq(packet, 1, 4) = <<77, 73, 67, 77>>
           /\ packet[5] + 256 * packet[6] = call.packet_type
           /\ packet[7] + 256 * packet[8] = call.size[2]
           /\ packet[9] + 256 * packet[10] = call.size[1]
           /\ \A k \in 5..10 : packet[k] \in 0..255
    /\ call.op = "decode_tcp_header_packet" =>
           \A t \in PacketTypes, n \in Sizes :
               packet = <<77, 73, 67, 77, t, 0, n[2] % 256, n[2] \div 256,
                          n[1] % 256, n[1] \div 256>> =>
                   /\ call.ret = "ok"
                   /\ call.packet_type = Some(t)
                   /\ call.next_packet_size = Some(n)

\* the header of a marker frame of 2^32 - 1 bytes was built and decoded
C21_Witness ==
    /\ call.op = "decode_tcp_header_packet"
    /\ packet = <<77, 73, 67, 77, 3, 0, 255, 255, 255, 255>>
    /\ call.next_packet_size = Some(U32(65535, 65535))

----------------------------------------------------------------------------
(* Vocabulary of the properties on annotations *)

\* the last call made a Raw
MadeRaw == call.op = "create_mne_from_micromed_recording" /\ call.ret = "Raw"

\* floor(t * sfreq) for the time t / TimeDen s, t >= 0
FloorSample(t) == (t * Get(micromed_header.min_sampling_rate)) \div TimeDen

\* the samples of a table that lie in [start_sample, stop_sample) of the
\* last call
InRange(table) ==
    {s \in DOMAIN table :
       /\ IntOf(s) >= FloorSample(call.start_time)
       /\ (call.stop_time # None => IntOf(s) < FloorSample(Get(call.stop_time)))}

\* the annotation claimed for the entry of sample s
AnnotationOf(table, s) ==
    [onset |-> <<IntOf(s) - FloorSample(call.start_time),
                 Get(micromed_header.min_sampling_rate)>>,
     duration |-> 0, description |-> table[s]]

(* C22: the Raw of create_mne_from_micromed_recording(start_time, stop_time)
   has one annotation for each note and each marker whose sample s satisfies
   start_sample <= s < stop_sample (s >= start_sample without a stop time)
   and no other, with the onset (s - start_sample) / sfreq. *)
C22_AnnotationsInRange ==
    MadeRaw =>
        LET notes == Get(micromed_header.notes)
            markers == Get(micromed_header.markers)
            all == {AnnotationOf(notes, s) : s \in InRange(notes)}
                     \cup {AnnotationOf(markers, s) : s \in InRange(markers)}
        IN  /\ \A k \in 1..Len(call.annotations) : call.annotations[k] \in all
            /\ \A a \in all :
                   Cardinality({k \in 1..Len(call.annotations) : call.annotations[k] = a})
                     = Cardinality({s \in InRange(notes) : AnnotationOf(notes, s) = a})
                         + Cardinality({s \in InRange(markers) :
                                          AnnotationOf(markers, s) = a})

\* a Raw from 1 s to 2 s of a file at 2 Hz: the note and the marker at sample
\* 2 are in, the note at sample 4 (the stop sample), the note at sample 1 and
\* the marker at sample 0 are out
C22_Witness ==
    /\ MadeRaw
    /\ Get(micromed_header.min_sampling_rate) = 2
    /\ call.start_time = TimeDen
    /\ call.stop_time = Some(2 * TimeDen)
    /\ DOMAIN Get(micromed_header.notes) = {U32(0, 1), U32(0, 2), U32(0, 4)}
    /\ DOMAIN Get(micromed_header.markers) = {U32(0, 0), U32(0, 2), U32(1, 0)}
    /\ Len(call.annotations) = 2

----------------------------------------------------------------------------
(* C23: for chunks of any sizes, the k-th emitted window (k from 0) holds, in
   order, the stream samples k * (W - O) to k * (W - O) + W - 1 of each picked
   channel.  Stated for 0 <= O < W. *)
C23_WindowsAreStreamSlices ==
    GoodWindow =>
        \A k \in 1..Len(emitted) :
            /\ Len(emitted[k]) = Len(Get(picks_id))
            /\ \A r \in 1..Len(emitted[k]) :
                   emitted[k][r]
                     = [j \in 1..WindowLength |->
                          StreamSample(PickedName(r),
                                       (k - 1) * (WindowLength - OverlapLength) + j - 1)]

----------------------------------------------------------------------------
(* C24: after decode_data_eeg_packet for any requested subset of the header's
   N channels, the matrix has one row per requested channel, in the order of
   the header, and the row of channel c holds at column t the value derived
   from the raw integer at position t * N + c of the chunk (the raw integer
   itself with keep_raw), whatever other channels were requested. *)
C24_RowsAreDeinterleaved ==
    (Decoded /\ KnownPicks /\ call.ret \in {"True", "False"}) =>
        LET N == Get(micromed_header.nb_of_channels)
            raw == RawValues(packet, Get(micromed_header.nb_of_bytes))
            names == Get(micromed_header.ch_names)
            Value(c, t) ==
                IF call.keep_raw THEN raw[t * N + c + 1]
                ELSE (raw[t * N + c + 1] - Get(micromed_header.elec_refs)[c + 1].logic_ground)
                       * Get(micromed_header.elec_refs)[c + 1].factor
        IN  /\ Len(Get(current_data_eeg)) = Len(AskedNames)
            /\ \A r \in 1..Len(AskedNames) :
                   Get(current_data_eeg)[r]
                     = [t \in 1..PacketSamples |->
                          Value(IndexOf(AskedNames[r], names), t - 1)]

----------------------------------------------------------------------------
(* C25: after every update_epoch_buffer call, for chunks of any sizes, the
   cursor satisfies 0 <= current_buffer_length < W, it is at least O once a
   window has been emitted, and the fill buffer has its W columns.  Stated
   for 0 <= O < W. *)
C25_CursorWithinWindow ==
    (GoodWindow /\ call.op = "update_epoch_buffer") =>
        /\ 0 <= current_buffer_length
        /\ current_buffer_length < WindowLength
        /\ Len(emitted) >= 1 => current_buffer_length >= OverlapLength
        /\ \A r \in 1..Len(Get(epoch_buffer)) : Len(Get(epoch_buffer)[r]) = WindowLength

----------------------------------------------------------------------------
(* C26: after every update_epoch_buffer call that returned, whatever header
   packets came before it, epoch_buffer and current_epoch have len(picks_id)
   rows and floor(min_sampling_rate * epoch_duration) columns for the header
   in force. *)
C26_BufferShapeFollowsHeader ==
    (call.op = "update_epoch_buffer" /\ call.ret \in {"True", "False"}) =>
        \A M \in {Get(epoch_buffer), Get(current_epoch)} :
            /\ Len(M) = Len(Get(picks_id))
            /\ \A r \in 1..Len(M) : Len(M[r]) = WindowLength

----------------------------------------------------------------------------
(* C27: on every exit of decode_data_eeg_packet, by return or by exception,
   the list the caller passed as picks has the elements it had before the
   call, in the same order. *)
C27_CallerPicksUntouched ==
    (Decoded /\ call.arg # None) => call.arg_picks = call.arg

----------------------------------------------------------------------------
(* Vocabulary of the properties on the integrity verdict *)

\* the per-call picks that name channels of the header only, or None
KnownCallPicks == {pk \in CallPicks : pk = None \/ AllKnown(Get(pk))}

\* the outcome of the last call's packet decoded with check_data=True and
\* the given picks and flags
Verdict(arg, keep_raw, use_volt) ==
    decode_data_eeg_packet(micromed_header, current_data_eeg, current_channels,
                           packet, arg, keep_raw, use_volt, TRUE).ret

(* C28: for one header and one chunk, decode_data_eeg_packet with
   check_data=True returns the same boolean for every keep_raw, use_volt and
   per-call picks (channels of the header, any subset, any order). *)
C28_VerdictIgnoresFlagsAndPicks ==
    (Decoded /\ call.check_data /\ KnownPicks /\ call.ret \in {"True", "False"}) =>
        \A arg \in KnownCallPicks, keep_raw \in BOOLEAN, use_volt \in BOOLEAN :
            Verdict(arg, keep_raw, use_volt) \in {"True", "False"} =>
                Verdict(arg, keep_raw, use_volt) = call.ret

----------------------------------------------------------------------------
(* Vocabulary of the properties on the server's sessions *)

\* the session at hand has ended: an exception is on its way out of the
\* inner loop
SessionEnded == connection = "open" /\ call.ret \in SessionErrors

\* the MicromedBuffer is as its constructor leaves it
FreshBuffer ==
    /\ micromed_header = NewHeader
    /\ picks_id = None
    /\ current_data_eeg = None
    /\ current_channels = None
    /\ epoch_buffer = None
    /\ current_epoch = None
    /\ current_buffer_length = 0

(* C29: in the tcp_to_epoch server every session end (wrong or empty frame
   header, unknown packet type, decoder error, peer closing) is followed at
   once by the closing of the connection and of the listening socket; a new
   socket is bound only with both closed; and a new connection is served
   with a MicromedBuffer as the constructor leaves it. *)
C29_SessionEndClosesAndResets ==
    [][/\ SessionEnded => (connection' = "closed" /\ sock' = "closed")
       /\ (sock # "listening" /\ sock' = "listening") =>
              (sock \in {"none", "closed"} /\ connection \in {"none", "closed"})
       /\ (connection # "open" /\ connection' = "open") =>
              (sock = "listening" /\ FreshBuffer')]_vars

\* C29: a session that decoded a header and filled part of its buffer has
\* ended and both sockets are closed
C29_Witness ==
    /\ call.op = "close"
    /\ sock = "closed"
    /\ connection = "closed"
    /\ micromed_header.ch_names # None
    /\ epoch_buffer # None
    /\ current_buffer_length > 0

----------------------------------------------------------------------------
(* Vocabulary of the properties on the emulator *)

\* the emulator has stopped with "TRC file over"
FileOver == sock = "closed" /\ call.op = "send" /\ call.ret = "TRC file over"

(* C30: when the emulator stops with "TRC file over", the payloads of the
   EEG_DATA frames it has sent, put end to end, are the data region of the
   file: every sample once, in file order, from the first to the last. *)
C30_SentDataIsTheFile == FileOver => call.sent = recording

====
